---- MODULE Spec2Model ----
(***************************************************************************)
(* Event photo sharing: the attendee dashboard's matching workflow, the    *)
(* organizer dashboard's event creation and deletion, the selfie update    *)
(* and the upload page's file selection, as state machines with one        *)
(* action per await point of the TypeScript handlers.                      *)
(***************************************************************************)
EXTENDS Integers, Sequences, FiniteSets, TLC

(***************************************************************************)
(* Bounds of the model                                                     *)
(***************************************************************************)
\* largest number of image objects a listing returns in the matching runs
MaxImages == 2
\* form submissions in one run of the attendee dashboard
MaxSubmits == 1
MaxUrlLookups == 1
\* images beyond one full batch in the batching runs
Extra == 1
\* Math.random() is drawn from k / RandomGrain, k in 0 .. RandomGrain - 1
RandomGrain == 2
\* event creations and deletions in one run of the organizer dashboards
MaxCreates == 2
MaxDeletes == 1
\* selfie updates in one run
MaxSelfies == 1
\* files of one selection and selections in one run of the upload page
MaxSelect == 2
MaxChanges == 2
\* presses of the upload button in one run
MaxUploads == 1
\* presses of the Update button that open the camera in one run
MaxCameras == 2
\* sign-ins and sign-outs in one run of the navbar
MaxSignIns == 2
MaxLogouts == 1
\* presses of the button of handleUploadAndCompare
MaxCompares == 2

(***************************************************************************)
(* Program constants                                                       *)
(***************************************************************************)
batchSize == 10
SimilarityThreshold == 80
AcceptThreshold == 70
maxAttempts == 10

\* a message or marker that is null
None == "none"

\* the signed-in attendee
UserU == "u@mail"

\* `https://${S3_BUCKET_NAME}.s3.amazonaws.com/` ; a URL is <<base, path>>
s3BucketUrl == "https://bucket.s3.amazonaws.com/"
OtherBase == "https://cdn.example.com/"
\* a URL that is null
NoUrl == <<"", <<>>>>

(***************************************************************************)
(* Strings as sequences of one-character strings                           *)
(***************************************************************************)
RECURSIVE PadStart(_, _, _)
\* String.prototype.padStart(n, c)
PadStart(s, n, c) ==
    IF Len(s) >= n THEN s ELSE PadStart(<<c>> \o s, n, c)

RECURSIVE StripLeadingZeros(_)
\* s.replace(/^0+/, '')
StripLeadingZeros(s) ==
    IF s # <<>> /\ Head(s) = "0" THEN StripLeadingZeros(Tail(s)) ELSE s

\* s.trim() === ''
TrimIsEmpty(s) == \A k \in 1..Len(s) : s[k] = " "

\* s.startsWith('0')
StartsWithZero(s) == s # <<>> /\ Head(s) = "0"

(***************************************************************************)
(* The worlds of the attendee dashboard runs                               *)
(***************************************************************************)
\* ids of the events the directory may hold: a generated six-digit id, a
\* legacy id with leading zeros and a legacy short id
IdGenerated == <<"1", "0", "0", "0", "0", "0">>
IdZeroLed == <<"0", "0", "0", "0", "4", "2">>
IdShort == <<"4", "2">>
MatchEventIds == {IdGenerated, IdZeroLed, IdShort}

\* what the user may type or the URL may carry
Codes == MatchEventIds \cup {<<"0", "0", "0", "0", "0", "0">>, <<"7">>, <<" ">>}

\* an event record of the Events table; serial tells two records apart
EventRec(id, email, organizer, serial) ==
    [id |-> id, userEmail |-> email, organizerId |-> organizer,
     userId |-> organizer, serial |-> serial]
\* the value of getEventById when there is no such event
NoEvent == EventRec(<<>>, "", "", 0)

\* the S3 key events/shared/{eventId}/images/{n}.{ext}
ImageKey(eventId, n, ext) == <<"events", eventId, "images", n, ext>>
ImageUrl(key) == <<s3BucketUrl, key>>

\* /\.(jpg|jpeg|png)$/i.test(key)
IsImageKey(key) == key[5] \in {"jpg", "jpeg", "png", "JPG", "JPEG", "PNG"}

SelfiePath(user, v) == <<"users", user, "selfies", v>>
SelfieA == <<s3BucketUrl, SelfiePath(UserU, 1)>>
SelfieB == <<s3BucketUrl, SelfiePath(UserU, 2)>>
SelfieForeign == <<OtherBase, SelfiePath(UserU, 0)>>

\* an AttendeeMatchRecord of (UserU, eventId); the reserved id is "default"
DefaultId == <<"d", "e", "f", "a", "u", "l", "t">>
AttendeeRec(eventId, selfie, matched) ==
    [eventId |-> eventId, selfieURL |-> selfie, matchedImages |-> matched]
NoRecord == AttendeeRec(<<>>, NoUrl, <<>>)

\* window.localStorage with the entries handleSignIn stores for userEmail
\* (none of them when userEmail is null) and a pending action; an entry
\* that is not stored is None, currentEventId <<>>
Session(userEmail, pendingAction) ==
    [userEmail |-> userEmail,
     googleToken |-> userEmail,
     userProfile |-> userEmail,
     userMobile |-> IF userEmail = None THEN None ELSE "",
     pendingAction |-> pendingAction,
     pendingRedirectUrl |-> None,
     currentEventId |-> <<>>]

\* a CompareFaces response: the call throws (ok = FALSE) or returns
\* FaceMatches; a FaceMatch is <<Similarity>>, or <<>> when it has none
Response(ok, sims) == [ok |-> ok, FaceMatches |-> sims]
Responses ==
    {Response(FALSE, <<>>), Response(TRUE, <<>>), Response(TRUE, <<(<<69>>)>>),
     Response(TRUE, <<(<<70>>)>>), Response(TRUE, <<(<<85>>), (<<70>>)>>),
     Response(TRUE, <<(<<>>)>>)}

\* an object of the bucket: where its key lies (cover, images, selfies of
\* an event; selfies of a user), the file name in the key, and the ACL its
\* upload asked for (None when the upload named no ACL)
S3Object(kind, eventId, user, name, acl) ==
    [kind |-> kind, eventId |-> eventId, user |-> user, name |-> name,
     ACL |-> acl]
\* events/shared/{eventId}/cover.jpg, uploaded by handleCreateEvent
CoverObject(eventId) ==
    S3Object("cover", eventId, "", <<0, <<>>>>, "public-read")
\* users/{userEmail}/selfies/selfie-{now}-{name}, uploaded by uploadSelfie
UserSelfieObject(selfieUrlOf) ==
    S3Object("userSelfie", <<>>, selfieUrlOf[2][2], <<selfieUrlOf[2][4], <<>>>>,
             "public-read")

(***************************************************************************)
(* State                                                                   *)
(***************************************************************************)
VARIABLES
    \* the Events table (Event Directory): a set of event records
    eventsTable,
    \* the attendee table (Attendee Match Store) of UserU: event id -> record
    attendeeTable,
    \* the records the attendee table holds under the empty user id ''
    unsignedTable,
    \* the numbers of image objects a listing of an event prefix may return
    s3ImageCounts,
    \* the responses the face comparison service may give
    gateway,
    \* window.localStorage: the entries of the session (userEmail,
    \* googleToken, userProfile, userMobile), pendingAction,
    \* pendingRedirectUrl and currentEventId
    localStorage,
    \* React state of AttendeeDashboard
    eventDetails, selfieUrl, attendedEvents, matchingImages, processingStatus,
    isUploading, error, successMessage, showSignInModal,
    \* a pending setTimeout(() => setProcessingStatus(null), 1000)
    statusTimer,
    \* the running handleEventCodeSubmit and the submissions still to come
    sub, submitsLeft,
    \* the running lookupEvent of the URL-parameter effect and those to come
    url, urlLeft,
    \* the running uploadSelfie and the selfie updates still to come
    upl, selfiesLeft

VARIABLES
    \* the Users table: organizer -> user record
    usersTable,
    \* the keys of the cover images put into the bucket
    coverObjects,
    \* React state of each organizer's EventDashboard
    events, deleteConfirmation, isLoading, alertMessage, navigatedTo,
    \* each organizer's running handleCreateEvent
    cr,
    \* creations and deletions still to come, the serial of the next event
    \* record, and the last deletion that succeeded
    createsLeft, deletesLeft, nextSerial, lastDelete

VARIABLES
    \* React state of UploadImage: the pending batch and its previews
    images, imagePreviews, skippedAlert,
    \* the last selection handled, the batch before it, the selections to come
    lastFiles, imagesBefore, changesLeft

VARIABLES
    \* the objects put into the bucket, each with the ACL of its upload
    s3Objects,
    \* React state of UploadImage around handleUpload; isUploading and the
    \* text of alert() carry the component's name to tell them from the
    \* attendee dashboard's
    selectedEvent, uploadImageIsUploading, uploadSuccess, uploadProgress,
    uploadedUrls, showQRModal, uploadImageAlert,
    \* the running handleUpload and the uploads still to come
    hu, uploadsLeft

VARIABLES
    \* React state of Navbar, the userEmail and userRole of the UserContext
    \* it sets, and the route it has navigated to
    isLoggedIn, userProfile, contextUserEmail, userRole, navType, showSignInError,
    navbarNavigatedTo,
    \* the running handleSignIn, the sign-ins and the sign-outs still to come
    sgn, signInsLeft, logoutsLeft

VARIABLES
    \* whether the attendee dashboard is mounted, and its React state of the
    \* camera: stream and the tracks are numbered from 1, 0 is null
    mounted, showCameraModal, isCameraActive, stream, videoRef,
    \* the stream attached to the video element, the camera tracks that are
    \* live
    srcObject, liveTracks,
    \* the running startCamera and captureImage, the presses of the Update
    \* button still to come
    cam, cap, camerasLeft

VARIABLES
    \* whether the selfie state of the attendee dashboard holds a File, the running
    \* handleUploadAndCompare and its invocations still to come
    selfieFile, uac, comparesLeft

VARIABLES
    \* React state of AttendeeDashboard around fetchUserData: the statistics
    \* and the loading flag, the running fetchUserData and its runs to come
    statistics, loading, fud, fetchesLeft

compareVars == <<selfieFile, uac, comparesLeft>>
statsVars == <<statistics, loading, fud, fetchesLeft>>
cameraVars ==
    <<mounted, showCameraModal, isCameraActive, stream, videoRef, srcObject,
      liveTracks, cam, cap, camerasLeft>>
navbarVars ==
    <<isLoggedIn, userProfile, contextUserEmail, userRole, navType, showSignInError,
      navbarNavigatedTo, sgn, signInsLeft, logoutsLeft>>
organizerVars ==
    <<usersTable, coverObjects, events, deleteConfirmation, isLoading,
      alertMessage, navigatedTo, cr, createsLeft, deletesLeft, nextSerial,
      lastDelete>>
\* what handleImageChange leaves alone on its own page
handleUploadVars ==
    <<selectedEvent, uploadImageIsUploading, uploadSuccess, uploadProgress,
      uploadedUrls, showQRModal, uploadImageAlert, hu, uploadsLeft>>
uploadPageVars ==
    <<images, imagePreviews, skippedAlert, lastFiles, imagesBefore,
      changesLeft, handleUploadVars>>

\* what the lookup and matching handlers of the attendee dashboard leave alone
worldVars ==
    <<eventsTable, s3ImageCounts, gateway, organizerVars, uploadPageVars,
      upl, selfiesLeft, s3Objects, unsignedTable, navbarVars, cameraVars,
      compareVars, statsVars>>
uiVars ==
    <<eventDetails, selfieUrl, attendedEvents, matchingImages, processingStatus,
      isUploading, error, successMessage, showSignInModal, statusTimer>>
dashVars ==
    <<attendeeTable, localStorage, uiVars, sub, submitsLeft, url, urlLeft>>

AttendeeIds == MatchEventIds \cup {DefaultId}

\* the locals of an invocation that has not started
SubIdle ==
    [pc |-> "idle", code |-> <<>>, userEmail |-> None, event |-> NoEvent,
     tried |-> <<>>, threw |-> FALSE,
     snapImages |-> <<>>, snapEvents |-> <<>>, snapSelfie |-> NoUrl,
     cached |-> FALSE, selfie |-> NoUrl, imageKeys |-> <<>>, i |-> 0,
     inflight |-> {}, batchResults |-> <<>>, responses |-> <<>>,
     results |-> <<>>, sortedMatches |-> <<>>, calls |-> {}, trace |-> <<>>,
     outcome |-> None]

UrlIdle ==
    [pc |-> "idle", code |-> <<>>, userEmail |-> None, event |-> NoEvent,
     tried |-> <<>>, threw |-> FALSE,
     snapImages |-> <<>>, snapEvents |-> <<>>, cached |-> FALSE,
     calls |-> {}, outcome |-> None]

\* user-facing messages
MsgEnterCode == "Please enter an event code"
MsgNotFound == "Event not found"
MsgSignIn == "Please sign in to access your photos from this event."
MsgLookupFailed == "Failed to find event. Please try again."
MsgNoSelfiePath == "Could not determine S3 path for the existing selfie"
MsgListFailed == "Error processing your request. Please try again."
MsgNoImages == "No images found in this event."
MsgNoValidImages == "No valid images found in this event."
MsgNoMatches == "No matching faces found in the event images."
StatusLooking == "Looking up event..."
StatusFound == "Found your previous photos for this event!"
StatusUsingSelfie == "Using your existing selfie to find photos..."
StatusComparing == "Comparing with event images..."
MsgFound == "Found photos"
MsgFoundNew == "Found new photos"

(***************************************************************************)
(* Event Directory and Attendee Match Store reads                          *)
(***************************************************************************)
\* getEventById(id): the event stored under id, no event, or the call throws
GetEventByIdResults(id) ==
    LET hits == {e \in eventsTable : e.id = id}
    IN  {[ok |-> FALSE, event |-> NoEvent]}
        \cup (IF hits = {} THEN {[ok |-> TRUE, event |-> NoEvent]}
              ELSE {[ok |-> TRUE, event |-> e] : e \in hits})

\* getAttendeeImagesByUserAndEvent(userEmail, eventId)
getAttendeeImagesByUserAndEvent(eventId) ==
    IF eventId \in DOMAIN attendeeTable THEN attendeeTable[eventId] ELSE NoRecord

\* getUserDefaultSelfie(userEmail)
getUserDefaultSelfie == attendeeTable[DefaultId].selfieURL

(***************************************************************************)
(* Event lookup of handleEventCodeSubmit and lookupEvent                   *)
(***************************************************************************)
\* the id the lookup asks for at each of its three getEventById calls
LookupId(pc, code) ==
    CASE pc = "getExact" -> code
      [] pc = "getPadded" -> PadStart(code, 6, "0")
      [] pc = "getStripped" -> StripLeadingZeros(code)

\* a lookup that never tries the code without its leading zeros
LookupNextUnstripped(pc, code) ==
    IF pc = "getExact" /\ Len(code) < 6 THEN "getPadded" ELSE "resolved"

\* where the lookup goes after a getEventById call found nothing
\* ("resolved": the alternatives are exhausted)
LookupNext(pc, code) ==
    IF pc = "getExact" /\ Len(code) < 6 THEN "getPadded"
    ELSE IF pc = "getExact" /\ Len(code) = 6 /\ StartsWithZero(code)
            /\ StripLeadingZeros(code) # <<>> THEN "getStripped"
    ELSE "resolved"

(***************************************************************************)
(* Helpers of the matching workflow                                        *)
(***************************************************************************)
Min(a, b) == IF a < b THEN a ELSE b

\* x.Similarity || 0
OrZero(m) == IF m = <<>> THEN 0 ELSE m[1]

RECURSIVE Reduce(_, _)
\* FaceMatches.reduce((prev, current) =>
\*     (prev.Similarity || 0) > (current.Similarity || 0) ? prev : current)
\* from accumulator prev over the rest
Reduce(prev, rest) ==
    IF rest = <<>> THEN prev
    ELSE Reduce(IF OrZero(prev) > OrZero(Head(rest)) THEN prev ELSE Head(rest),
                Tail(rest))

bestMatch(faceMatches) == Reduce(Head(faceMatches), Tail(faceMatches))

\* a comparison whose failure counts as a perfect match
CompareResultFailureMatches(key, r) ==
    IF ~r.ok THEN <<[url |-> ImageUrl(key), similarity |-> 100]>>
    ELSE IF Len(r.FaceMatches) > 0
         THEN <<[url |-> ImageUrl(key),
                 similarity |-> OrZero(bestMatch(r.FaceMatches))]>>
         ELSE <<>>

\* what one batchPromises entry resolves to: <<>> for null
CompareResult(key, r) ==
    IF ~r.ok THEN <<>>
    ELSE IF Len(r.FaceMatches) > 0
         THEN <<[url |-> ImageUrl(key),
                 similarity |-> OrZero(bestMatch(r.FaceMatches))]>>
         ELSE <<>>

\* a filter at the threshold of the comparison service
AcceptedAtServiceThreshold(result) ==
    result # <<>> /\ result[1].similarity >= SimilarityThreshold

\* a filter that a score must exceed, not meet
AcceptedAbove(result) == result # <<>> /\ result[1].similarity > AcceptThreshold

\* the filter of results.push(...batchResults.filter(...))
Accepted(result) == result # <<>> /\ result[1].similarity >= AcceptThreshold

\* a slice that takes every remaining key
BatchIndicesUnbounded(i, n) == (i + 1)..n

\* imageKeys.slice(i, i + batchSize), as the indices of imageKeys
BatchIndices(i, n) == (i + 1)..Min(i + batchSize, n)

\* a loop that never pauses because it ends after its first batch
NeedsPauseNever(i, n) == FALSE
\* if (i + batchSize < imageKeys.length)
NeedsPause(i, n) == i + batchSize < n

RECURSIVE KeptOf(_, _, _)
\* the accepted entries of batchResults, in the order of the batch
KeptOf(batchResults, from, to) ==
    IF from > to THEN <<>>
    ELSE (IF Accepted(batchResults[from]) THEN batchResults[from] ELSE <<>>)
         \o KeptOf(batchResults, from + 1, to)

RECURSIVE InsertDesc(_, _)
\* x placed behind every element whose similarity is not smaller
InsertDesc(x, sorted) ==
    IF sorted = <<>> THEN <<x>>
    ELSE IF Head(sorted).similarity >= x.similarity
         THEN <<Head(sorted)>> \o InsertDesc(x, Tail(sorted))
         ELSE <<x>> \o sorted

RECURSIVE SortBySimilarity(_)
\* results.sort((a, b) => b.similarity - a.similarity), a stable sort
SortBySimilarity(results) ==
    IF results = <<>> THEN <<>>
    ELSE InsertDesc(results[Len(results)],
                    SortBySimilarity(SubSeq(results, 1, Len(results) - 1)))

Range(f) == {f[x] : x \in DOMAIN f}
Urls(matches) == [k \in 1..Len(matches) |-> matches[k].url]

\* listResponse.Contents: an optional object that is no image, then n images
ExtOf(k) == IF k % 2 = 1 THEN "jpg" ELSE "PNG"
Contents(eventId, n, junk) ==
    (IF junk THEN <<ImageKey(eventId, 0, "txt")>> ELSE <<>>)
    \o [k \in 1..n |-> ImageKey(eventId, k, ExtOf(k))]

\* Contents.filter(item => item.Key && /\.(jpg|jpeg|png)$/i.test(item.Key))
ImageKeysOf(contents) == SelectSeq(contents, IsImageKey)

\* a cached record of which nothing is shown
uniqueNewImagesDropped(newImages, closureImages) == <<>>

\* the images of a record that are not yet in the closure's matchingImages
uniqueNewImages(newImages, closureImages) ==
    SelectSeq(newImages, LAMBDA u : u \notin Range(closureImages))

\* attendedEvents after "add this event if not already there", decided on the
\* closure's attendedEvents
WithEvent(current, closureEvents, eventId) ==
    IF eventId \in Range(closureEvents) THEN current ELSE <<eventId>> \o current

(***************************************************************************)
(* handleEventCodeSubmit                                                   *)
(***************************************************************************)
\* the invocation returns: its locals are kept for inspection
SubEnds(outcome) == [sub EXCEPT !.pc = "idle", !.outcome = outcome]

\* a submission that looks a blank code up
SubmitBlankLooksUp(code) ==
    /\ sub.pc = "idle" /\ submitsLeft > 0
    /\ TrimIsEmpty(code)
    /\ submitsLeft' = submitsLeft - 1
    /\ error' = None
    /\ eventDetails' = NoEvent
    /\ successMessage' = None
    /\ processingStatus' = StatusLooking
    /\ sub' = [SubIdle EXCEPT !.pc = "getExact", !.code = code,
                              !.userEmail = localStorage.userEmail,
                              !.snapImages = matchingImages,
                              !.snapEvents = attendedEvents,
                              !.snapSelfie = selfieUrl,
                              !.tried = <<code>>,
                              !.calls = {"getEventById"}]
    /\ UNCHANGED <<worldVars, attendeeTable, localStorage, selfieUrl,
                   attendedEvents, matchingImages, isUploading,
                   showSignInModal, statusTimer, url, urlLeft>>

\* the form is submitted with a blank code: rejected before any call
SubmitBlank(code) ==
    /\ sub.pc = "idle" /\ submitsLeft > 0
    /\ TrimIsEmpty(code)
    /\ submitsLeft' = submitsLeft - 1
    /\ error' = MsgEnterCode
    /\ eventDetails' = NoEvent
    /\ successMessage' = None
    /\ sub' = [SubIdle EXCEPT !.code = code, !.outcome = "Invalid"]
    /\ UNCHANGED <<worldVars, attendeeTable, localStorage, selfieUrl,
                   attendedEvents, matchingImages, processingStatus,
                   isUploading, showSignInModal, statusTimer, url, urlLeft>>

\* the form is submitted: up to the first getEventById
Submit(code) ==
    /\ sub.pc = "idle" /\ submitsLeft > 0
    /\ ~TrimIsEmpty(code)
    /\ submitsLeft' = submitsLeft - 1
    /\ error' = None
    /\ eventDetails' = NoEvent
    /\ successMessage' = None
    /\ processingStatus' = StatusLooking
    /\ sub' = [SubIdle EXCEPT !.pc = "getExact", !.code = code,
                              !.userEmail = localStorage.userEmail,
                              !.snapImages = matchingImages,
                              !.snapEvents = attendedEvents,
                              !.snapSelfie = selfieUrl,
                              !.tried = <<code>>,
                              !.calls = {"getEventById"}]
    /\ UNCHANGED <<worldVars, attendeeTable, localStorage, selfieUrl,
                   attendedEvents, matchingImages, isUploading,
                   showSignInModal, statusTimer, url, urlLeft>>

\* a getEventById of the lookup throws: the outer catch
SubmitLookupThrows ==
    /\ sub.pc \in {"getExact", "getPadded", "getStripped"}
    /\ [ok |-> FALSE, event |-> NoEvent]
           \in GetEventByIdResults(LookupId(sub.pc, sub.code))
    /\ error' = MsgLookupFailed
    /\ processingStatus' = None
    /\ sub' = [SubEnds("Error") EXCEPT !.threw = TRUE]
    /\ UNCHANGED <<worldVars, attendeeTable, localStorage, eventDetails,
                   selfieUrl, attendedEvents, matchingImages, isUploading,
                   successMessage, showSignInModal, statusTimer, submitsLeft,
                   url, urlLeft>>

\* a getEventById finds nothing and another variant of the code is tried
SubmitLookupMiss ==
    /\ sub.pc \in {"getExact", "getPadded", "getStripped"}
    /\ [ok |-> TRUE, event |-> NoEvent]
           \in GetEventByIdResults(LookupId(sub.pc, sub.code))
    /\ LookupNext(sub.pc, sub.code) # "resolved"
    /\ LET next == LookupNext(sub.pc, sub.code)
       IN  sub' = [sub EXCEPT !.pc = next,
                              !.tried = @ \o <<LookupId(next, sub.code)>>]
    /\ UNCHANGED <<worldVars, attendeeTable, localStorage, uiVars,
                   submitsLeft, url, urlLeft>>

\* no variant of the code resolves: not found
SubmitNotFound ==
    /\ sub.pc \in {"getExact", "getPadded", "getStripped"}
    /\ [ok |-> TRUE, event |-> NoEvent]
           \in GetEventByIdResults(LookupId(sub.pc, sub.code))
    /\ LookupNext(sub.pc, sub.code) = "resolved"
    /\ error' = MsgNotFound
    /\ processingStatus' = None
    /\ sub' = SubEnds("NotFound")
    /\ UNCHANGED <<worldVars, attendeeTable, localStorage, eventDetails,
                   selfieUrl, attendedEvents, matchingImages, isUploading,
                   successMessage, showSignInModal, statusTimer, submitsLeft,
                   url, urlLeft>>

\* the event is found but nobody is signed in: prompt to sign in
SubmitAuthRequired ==
    /\ sub.pc \in {"getExact", "getPadded", "getStripped"}
    /\ sub.userEmail = None
    /\ \E r \in GetEventByIdResults(LookupId(sub.pc, sub.code)) :
          /\ r.ok /\ r.event # NoEvent
          /\ eventDetails' = r.event
          /\ sub' = [SubEnds("AuthRequired") EXCEPT !.event = r.event]
    /\ processingStatus' = None
    /\ error' = MsgSignIn
    /\ localStorage' = [localStorage EXCEPT !.pendingAction = "getPhotos"]
    /\ showSignInModal' = TRUE
    /\ UNCHANGED <<worldVars, attendeeTable, selfieUrl, attendedEvents,
                   matchingImages, isUploading, successMessage, statusTimer,
                   submitsLeft, url, urlLeft>>

\* the event is found and a user is signed in: on to CheckExistingMatch
SubmitFound ==
    /\ sub.pc \in {"getExact", "getPadded", "getStripped"}
    /\ sub.userEmail # None
    /\ \E r \in GetEventByIdResults(LookupId(sub.pc, sub.code)) :
          /\ r.ok /\ r.event # NoEvent
          /\ sub' = [sub EXCEPT !.pc = "check", !.event = r.event,
                         !.calls = @ \cup {"getAttendeeImagesByUserAndEvent"}]
    /\ UNCHANGED <<worldVars, attendeeTable, localStorage, uiVars,
                   submitsLeft, url, urlLeft>>

\* CheckExistingMatch finds a record: the cached matches are surfaced
SubmitCached ==
    /\ sub.pc = "check"
    /\ LET existingData == getAttendeeImagesByUserAndEvent(sub.event.id)
       IN  /\ existingData # NoRecord
           /\ matchingImages' =
                  uniqueNewImages(existingData.matchedImages, sub.snapImages)
                  \o matchingImages
    /\ processingStatus' = StatusFound
    /\ attendedEvents' = WithEvent(attendedEvents, sub.snapEvents, sub.event.id)
    /\ successMessage' = MsgFound
    /\ statusTimer' = statusTimer + 1
    /\ sub' = [SubEnds("Done") EXCEPT !.cached = TRUE]
    /\ UNCHANGED <<worldVars, attendeeTable, localStorage, eventDetails,
                   selfieUrl, isUploading, error, showSignInModal,
                   submitsLeft, url, urlLeft>>

\* setTimeout(() => setProcessingStatus(null), 1000) fires
StatusTimerFires ==
    /\ statusTimer > 0
    /\ statusTimer' = statusTimer - 1
    /\ processingStatus' = None
    /\ UNCHANGED <<worldVars, attendeeTable, localStorage, eventDetails,
                   selfieUrl, attendedEvents, matchingImages, isUploading,
                   error, successMessage, showSignInModal, sub, submitsLeft,
                   url, urlLeft>>

\* CheckExistingMatch finds no record: the default selfie is asked for
SubmitNoRecord ==
    /\ sub.pc = "check"
    /\ getAttendeeImagesByUserAndEvent(sub.event.id) = NoRecord
    /\ sub' = [sub EXCEPT !.pc = "getDefault",
                          !.calls = @ \cup {"getUserDefaultSelfie"}]
    /\ UNCHANGED <<worldVars, attendeeTable, localStorage, uiVars,
                   submitsLeft, url, urlLeft>>

\* a selfie taken from the component state only
existingSelfieOfState(closureSelfie, defaultSelfie) == closureSelfie

\* const existingSelfie = selfieUrl || defaultSelfie
existingSelfie(closureSelfie, defaultSelfie) ==
    IF closureSelfie # NoUrl THEN closureSelfie ELSE defaultSelfie

\* there is no selfie at all: the selfie upload form is shown
SubmitNoSelfie ==
    /\ sub.pc = "getDefault"
    /\ existingSelfie(sub.snapSelfie, getUserDefaultSelfie) = NoUrl
    /\ eventDetails' = sub.event
    /\ processingStatus' = None
    /\ sub' = SubEnds("AwaitSelfie")
    /\ UNCHANGED <<worldVars, attendeeTable, localStorage, selfieUrl,
                   attendedEvents, matchingImages, isUploading, error,
                   successMessage, showSignInModal, statusTimer, submitsLeft,
                   url, urlLeft>>

\* performFaceComparisonWithExistingSelfie cannot tell the selfie's S3 path
SubmitSelfiePathUnknown ==
    /\ sub.pc = "getDefault"
    /\ LET selfie == existingSelfie(sub.snapSelfie, getUserDefaultSelfie)
       IN  /\ selfie # NoUrl
           /\ selfie[1] # s3BucketUrl
           /\ sub' = [SubEnds("Error") EXCEPT !.selfie = selfie]
    /\ processingStatus' = StatusComparing
    /\ error' = MsgNoSelfiePath
    /\ isUploading' = FALSE
    /\ UNCHANGED <<worldVars, attendeeTable, localStorage, eventDetails,
                   selfieUrl, attendedEvents, matchingImages, successMessage,
                   showSignInModal, statusTimer, submitsLeft, url, urlLeft>>

\* the existing selfie is used: RunComparison starts with the listing
SubmitUseSelfie ==
    /\ sub.pc = "getDefault"
    /\ LET selfie == existingSelfie(sub.snapSelfie, getUserDefaultSelfie)
       IN  /\ selfie # NoUrl
           /\ selfie[1] = s3BucketUrl
           /\ sub' = [sub EXCEPT !.pc = "list", !.selfie = selfie,
                                 !.calls = @ \cup {"ListObjectsV2"}]
    /\ processingStatus' = StatusComparing
    /\ isUploading' = TRUE
    /\ UNCHANGED <<worldVars, attendeeTable, localStorage, eventDetails,
                   selfieUrl, attendedEvents, matchingImages, error,
                   successMessage, showSignInModal, statusTimer, submitsLeft,
                   url, urlLeft>>

(***************************************************************************)
(* performFaceComparisonWithExistingSelfie                                 *)
(***************************************************************************)
\* a catch without the finally: isUploading is left as it is
ComparisonFailsKeepsUploading(message) ==
    /\ error' = message
    /\ sub' = SubEnds("Error")
    /\ UNCHANGED <<worldVars, attendeeTable, localStorage, eventDetails,
                   selfieUrl, attendedEvents, matchingImages, processingStatus,
                   isUploading, successMessage, showSignInModal, statusTimer,
                   submitsLeft, url, urlLeft>>

\* the inner catch and finally: the message is shown, isUploading is reset,
\* processingStatus is left as it is
ComparisonFails(message) ==
    /\ error' = message
    /\ isUploading' = FALSE
    /\ sub' = SubEnds("Error")
    /\ UNCHANGED <<worldVars, attendeeTable, localStorage, eventDetails,
                   selfieUrl, attendedEvents, matchingImages, processingStatus,
                   successMessage, showSignInModal, statusTimer, submitsLeft,
                   url, urlLeft>>

\* s3Client.send(listCommand) throws
ListThrows ==
    /\ sub.pc = "list"
    /\ ComparisonFails(MsgListFailed)

\* the listing has no Contents
ListEmpty ==
    /\ sub.pc = "list"
    /\ 0 \in s3ImageCounts
    /\ ComparisonFails(MsgNoImages)

\* the listing has objects but none is an image
ListNoImages ==
    /\ sub.pc = "list"
    /\ 0 \in s3ImageCounts
    /\ ImageKeysOf(Contents(sub.event.id, 0, TRUE)) = <<>>
    /\ ComparisonFails(MsgNoValidImages)

\* the batch at offset i is issued: every comparison of it is sent
IssueBatch(s, i) ==
    [s EXCEPT !.pc = "batch", !.i = i,
              !.inflight = BatchIndices(i, Len(s.imageKeys)),
              !.batchResults = <<>>,
              !.calls = @ \cup {"CompareFaces"},
              !.trace = @ \o <<"batch">>]

\* the listing returns images: the first batch is issued
ListReturns ==
    /\ sub.pc = "list"
    /\ \E n \in s3ImageCounts \ {0}, junk \in BOOLEAN :
          LET imageKeys == ImageKeysOf(Contents(sub.event.id, n, junk))
          IN  sub' = IssueBatch([sub EXCEPT !.imageKeys = imageKeys], 0)
    /\ UNCHANGED <<worldVars, attendeeTable, localStorage, uiVars,
                   submitsLeft, url, urlLeft>>

\* one comparison of the batch in flight returns or throws
CompareReturns ==
    /\ sub.pc = "batch"
    /\ \E k \in sub.inflight, r \in gateway :
          sub' = [sub EXCEPT
                     !.inflight = @ \ {k},
                     !.responses = @ @@ (k :> r),
                     !.batchResults =
                         @ @@ (k :> CompareResult(sub.imageKeys[k], r))]
    /\ UNCHANGED <<worldVars, attendeeTable, localStorage, uiVars,
                   submitsLeft, url, urlLeft>>

\* a join that pushes the matches of the earlier batches once more
ResultsAfterBatchPushedAgain(s) ==
    s.results
    \o KeptOf([k \in 1..Len(s.imageKeys) |->
                  IF k \in DOMAIN s.responses
                  THEN CompareResult(s.imageKeys[k], s.responses[k])
                  ELSE <<>>],
              1, Min(s.i + batchSize, Len(s.imageKeys)))

\* results after Promise.all(batchPromises) of the batch at offset i
ResultsAfterBatch(s) ==
    s.results
    \o KeptOf(s.batchResults, s.i + 1, Min(s.i + batchSize, Len(s.imageKeys)))

\* Promise.all of a batch resolves and another batch follows: the pause
BatchJoinPause ==
    /\ sub.pc = "batch" /\ sub.inflight = {}
    /\ NeedsPause(sub.i, Len(sub.imageKeys))
    /\ sub' = [sub EXCEPT !.pc = "pause", !.results = ResultsAfterBatch(sub),
                          !.trace = @ \o <<"pause">>]
    /\ UNCHANGED <<worldVars, attendeeTable, localStorage, uiVars,
                   submitsLeft, url, urlLeft>>

\* the pause between two batches ends: the next batch is issued
PauseEnds ==
    /\ sub.pc = "pause"
    /\ sub' = IssueBatch(sub, sub.i + batchSize)
    /\ UNCHANGED <<worldVars, attendeeTable, localStorage, uiVars,
                   submitsLeft, url, urlLeft>>

\* the last batch is joined and nothing matched
BatchJoinNoMatches ==
    /\ sub.pc = "batch" /\ sub.inflight = {}
    /\ ~NeedsPause(sub.i, Len(sub.imageKeys))
    /\ SortBySimilarity(ResultsAfterBatch(sub)) = <<>>
    /\ error' = MsgNoMatches
    /\ isUploading' = FALSE
    /\ sub' = [SubEnds("Error") EXCEPT !.results = ResultsAfterBatch(sub)]
    /\ UNCHANGED <<worldVars, attendeeTable, localStorage, eventDetails,
                   selfieUrl, attendedEvents, matchingImages, processingStatus,
                   successMessage, showSignInModal, statusTimer, submitsLeft,
                   url, urlLeft>>

\* the last batch is joined: the matches are sorted and shown, and the
\* record is sent to the Attendee Match Store
BatchJoinMatches ==
    /\ sub.pc = "batch" /\ sub.inflight = {}
    /\ ~NeedsPause(sub.i, Len(sub.imageKeys))
    /\ LET sortedMatches == SortBySimilarity(ResultsAfterBatch(sub))
       IN  /\ sortedMatches # <<>>
           /\ matchingImages' = Urls(sortedMatches) \o matchingImages
           /\ sub' = [sub EXCEPT !.pc = "store",
                          !.results = sortedMatches,
                          !.sortedMatches = sortedMatches,
                          !.calls = @ \cup {"storeAttendeeImageData"}]
    /\ attendedEvents' = WithEvent(attendedEvents, sub.snapEvents, sub.event.id)
    /\ UNCHANGED <<worldVars, attendeeTable, localStorage, eventDetails,
                   selfieUrl, processingStatus, isUploading, error,
                   successMessage, showSignInModal, statusTimer, submitsLeft,
                   url, urlLeft>>

\* storeAttendeeImageData(attendeeData): an upsert that reports its success
storeAttendeeImageData(table, attendeeData, ok) ==
    IF ok THEN [table EXCEPT ![attendeeData.eventId] = attendeeData] ELSE table

\* a write whose failure is surfaced: the catch shows an error and the
\* success message is not set
StoreReturnsSurfacesFailure ==
    /\ sub.pc = "store"
    /\ \E storageResult \in BOOLEAN :
          /\ attendeeTable' =
                 storeAttendeeImageData(attendeeTable,
                     AttendeeRec(sub.event.id, sub.selfie,
                                 Urls(sub.sortedMatches)),
                     storageResult)
          /\ sub' = [SubEnds(IF storageResult THEN "Done" ELSE "Error") EXCEPT
                        !.calls = @ \cup (IF storageResult THEN {"stored"}
                                          ELSE {"storeFailed"})]
          /\ successMessage' =
                 IF storageResult THEN MsgFoundNew ELSE successMessage
          /\ error' = IF storageResult THEN error ELSE MsgListFailed
          /\ processingStatus' =
                 IF storageResult THEN None ELSE processingStatus
    /\ isUploading' = FALSE
    /\ UNCHANGED <<worldVars, localStorage, eventDetails, selfieUrl,
                   attendedEvents, matchingImages, showSignInModal,
                   statusTimer, submitsLeft, url, urlLeft>>
\* the write returns; a failure is only logged
StoreReturns ==
    /\ sub.pc = "store"
    /\ \E storageResult \in BOOLEAN :
          /\ attendeeTable' =
                 storeAttendeeImageData(attendeeTable,
                     AttendeeRec(sub.event.id, sub.selfie,
                                 Urls(sub.sortedMatches)),
                     storageResult)
          /\ sub' = [SubEnds("Done") EXCEPT
                        !.calls = @ \cup (IF storageResult THEN {"stored"}
                                          ELSE {"storeFailed"})]
    /\ successMessage' = MsgFoundNew
    /\ processingStatus' = None
    /\ isUploading' = FALSE
    /\ UNCHANGED <<worldVars, localStorage, eventDetails, selfieUrl,
                   attendedEvents, matchingImages, error, showSignInModal,
                   statusTimer, submitsLeft, url, urlLeft>>

(***************************************************************************)
(* lookupEvent, the effect on the eventId URL parameter                    *)
(***************************************************************************)
UrlEnds(outcome) == [url EXCEPT !.pc = "idle", !.outcome = outcome]

\* the effect runs with an eventId in location.search
UrlLookupStarts(code) ==
    /\ url.pc = "idle" /\ urlLeft > 0
    /\ urlLeft' = urlLeft - 1
    /\ error' = None
    /\ eventDetails' = NoEvent
    /\ successMessage' = None
    /\ processingStatus' = StatusLooking
    /\ url' = [UrlIdle EXCEPT !.pc = "getExact", !.code = code,
                              !.userEmail = localStorage.userEmail,
                              !.snapImages = matchingImages,
                              !.snapEvents = attendedEvents,
                              !.tried = <<code>>,
                              !.calls = {"getEventById"}]
    /\ UNCHANGED <<worldVars, attendeeTable, localStorage, selfieUrl,
                   attendedEvents, matchingImages, isUploading,
                   showSignInModal, statusTimer, sub, submitsLeft>>

UrlLookupThrows ==
    /\ url.pc \in {"getExact", "getPadded", "getStripped"}
    /\ [ok |-> FALSE, event |-> NoEvent]
           \in GetEventByIdResults(LookupId(url.pc, url.code))
    /\ error' = MsgLookupFailed
    /\ processingStatus' = None
    /\ url' = [UrlEnds("Error") EXCEPT !.threw = TRUE]
    /\ UNCHANGED <<worldVars, attendeeTable, localStorage, eventDetails,
                   selfieUrl, attendedEvents, matchingImages, isUploading,
                   successMessage, showSignInModal, statusTimer, sub,
                   submitsLeft, urlLeft>>

UrlLookupMiss ==
    /\ url.pc \in {"getExact", "getPadded", "getStripped"}
    /\ [ok |-> TRUE, event |-> NoEvent]
           \in GetEventByIdResults(LookupId(url.pc, url.code))
    /\ LookupNext(url.pc, url.code) # "resolved"
    /\ LET next == LookupNext(url.pc, url.code)
       IN  url' = [url EXCEPT !.pc = next,
                              !.tried = @ \o <<LookupId(next, url.code)>>]
    /\ UNCHANGED <<worldVars, attendeeTable, localStorage, uiVars, sub,
                   submitsLeft, urlLeft>>

UrlNotFound ==
    /\ url.pc \in {"getExact", "getPadded", "getStripped"}
    /\ [ok |-> TRUE, event |-> NoEvent]
           \in GetEventByIdResults(LookupId(url.pc, url.code))
    /\ LookupNext(url.pc, url.code) = "resolved"
    /\ error' = MsgNotFound
    /\ processingStatus' = None
    /\ url' = UrlEnds("NotFound")
    /\ UNCHANGED <<worldVars, attendeeTable, localStorage, eventDetails,
                   selfieUrl, attendedEvents, matchingImages, isUploading,
                   successMessage, showSignInModal, statusTimer, sub,
                   submitsLeft, urlLeft>>

\* found, nobody signed in: the event is shown with a prompt to sign in
UrlAuthRequired ==
    /\ url.pc \in {"getExact", "getPadded", "getStripped"}
    /\ url.userEmail = None
    /\ \E r \in GetEventByIdResults(LookupId(url.pc, url.code)) :
          /\ r.ok /\ r.event # NoEvent
          /\ eventDetails' = r.event
          /\ url' = [UrlEnds("AuthRequired") EXCEPT !.event = r.event]
    /\ processingStatus' = None
    /\ error' = MsgSignIn
    /\ UNCHANGED <<worldVars, attendeeTable, localStorage, selfieUrl,
                   attendedEvents, matchingImages, isUploading, successMessage,
                   showSignInModal, statusTimer, sub, submitsLeft, urlLeft>>

UrlFound ==
    /\ url.pc \in {"getExact", "getPadded", "getStripped"}
    /\ url.userEmail # None
    /\ \E r \in GetEventByIdResults(LookupId(url.pc, url.code)) :
          /\ r.ok /\ r.event # NoEvent
          /\ url' = [url EXCEPT !.pc = "check", !.event = r.event,
                         !.calls = @ \cup {"getAttendeeImagesByUserAndEvent"}]
    /\ UNCHANGED <<worldVars, attendeeTable, localStorage, uiVars, sub,
                   submitsLeft, urlLeft>>

\* handleExistingEventData(existingData, event), then the finally block
UrlCached ==
    /\ url.pc = "check"
    /\ LET existingData == getAttendeeImagesByUserAndEvent(url.event.id)
       IN  /\ existingData # NoRecord
           /\ matchingImages' =
                  uniqueNewImages(existingData.matchedImages, url.snapImages)
                  \o matchingImages
    /\ attendedEvents' = WithEvent(attendedEvents, url.snapEvents, url.event.id)
    /\ successMessage' = MsgFound
    /\ processingStatus' = None
    /\ url' = [UrlEnds("Done") EXCEPT !.cached = TRUE]
    /\ UNCHANGED <<worldVars, attendeeTable, localStorage, eventDetails,
                   selfieUrl, isUploading, error, showSignInModal, statusTimer,
                   sub, submitsLeft, urlLeft>>

\* no record: the event is shown for a new upload
UrlNoRecord ==
    /\ url.pc = "check"
    /\ getAttendeeImagesByUserAndEvent(url.event.id) = NoRecord
    /\ eventDetails' = url.event
    /\ processingStatus' = None
    /\ url' = UrlEnds("AwaitSelfie")
    /\ UNCHANGED <<worldVars, attendeeTable, localStorage, selfieUrl,
                   attendedEvents, matchingImages, isUploading, error,
                   successMessage, showSignInModal, statusTimer, sub,
                   submitsLeft, urlLeft>>

(***************************************************************************)
(* Initial states and specifications of the attendee dashboard             *)
(***************************************************************************)
\* the directories of the runs: the generated id with one of the legacy ids
Directories ==
    {{EventRec(IdGenerated, "org@mail", "org@mail", 1),
      EventRec(IdZeroLed, "org@mail", "org@mail", 2)},
     {EventRec(IdGenerated, "org@mail", "org@mail", 1),
      EventRec(IdShort, "org@mail", "org@mail", 2)}}

\* the attendee tables of the runs: with or without a default selfie, with
\* or without an earlier match record of the generated event
EmptyTable == [e \in AttendeeIds |-> NoRecord]
EarlierMatch ==
    AttendeeRec(IdGenerated, SelfieA,
                <<ImageUrl(ImageKey(IdGenerated, 1, ExtOf(1)))>>)
AttendeeTables ==
    {[[EmptyTable EXCEPT ![DefaultId] = d] EXCEPT ![IdGenerated] = m] :
        d \in {NoRecord, AttendeeRec(DefaultId, SelfieA, <<>>),
               AttendeeRec(DefaultId, SelfieForeign, <<>>)},
        m \in {NoRecord, EarlierMatch}}

InitDashboard ==
    /\ eventsTable \in Directories
    /\ attendeeTable \in AttendeeTables
    /\ unsignedTable = EmptyTable
    /\ localStorage \in {Session(None, None), Session(UserU, None)}
    /\ eventDetails = NoEvent
    /\ selfieUrl \in {NoUrl, attendeeTable[DefaultId].selfieURL}
    /\ localStorage.userEmail = None => selfieUrl = NoUrl
    /\ attendedEvents = <<>>
    /\ matchingImages = <<>>
    /\ processingStatus = None
    /\ isUploading = FALSE
    /\ error = None
    /\ successMessage = None
    /\ showSignInModal = FALSE
    /\ statusTimer = 0
    /\ sub = SubIdle
    /\ url = UrlIdle

\* the lookup steps of a form submission
NextSubmitLookup ==
    \/ \E code \in Codes : SubmitBlank(code)
    \/ \E code \in Codes : Submit(code)
    \/ SubmitLookupThrows
    \/ SubmitLookupMiss
    \/ SubmitNotFound
    \/ SubmitAuthRequired
    \/ SubmitFound
    \/ SubmitCached
    \/ StatusTimerFires
    \/ SubmitNoRecord
    \/ SubmitNoSelfie
    \/ SubmitSelfiePathUnknown
    \/ SubmitUseSelfie

\* the steps of a comparison run of one batch
NextCompare ==
    \/ ListThrows
    \/ ListEmpty
    \/ ListNoImages
    \/ ListReturns
    \/ CompareReturns
    \/ BatchJoinNoMatches
    \/ BatchJoinMatches
    \/ StoreReturns

NextUrl ==
    \/ \E code \in Codes : UrlLookupStarts(code)
    \/ UrlLookupThrows
    \/ UrlLookupMiss
    \/ UrlNotFound
    \/ UrlAuthRequired
    \/ UrlFound
    \/ UrlCached
    \/ UrlNoRecord


(***************************************************************************)
(* EventDashboard: the organizers, the Users table, event ids              *)
(***************************************************************************)
Orgs == {"a@mail", "b@mail"}

DigitChar == <<"0", "1", "2", "3", "4", "5", "6", "7", "8", "9">>

RECURSIVE toString(_)
\* Number.prototype.toString() of a natural number
toString(n) ==
    IF n < 10 THEN <<DigitChar[n + 1]>>
    ELSE toString(n \div 10) \o <<DigitChar[(n % 10) + 1]>>

\* a generator without the offset: Math.floor(Math.random() * 1000000)
generateUnpaddedId(k) == toString((k * 1000000) \div RandomGrain)

\* Math.floor(100000 + Math.random() * 900000).toString(), with
\* Math.random() = k / RandomGrain
generateSixDigitId(k) == toString(100000 + ((k * 900000) \div RandomGrain))

RandomDraws == 0..(RandomGrain - 1)

\* a record of the Users table; hasEvents tells a createdEvents list from null
UserRec(exists, role, hasEvents, createdEvents, createdAt) ==
    [exists |-> exists, role |-> role, hasEvents |-> hasEvents,
     createdEvents |-> createdEvents, createdAt |-> createdAt]
NoUser == UserRec(FALSE, None, FALSE, <<>>, None)

\* new Date().toISOString() of a call made in a run, and the timestamp of a
\* record stored before the run
NewDate == "in the run"
EarlierDate == "before the run"

RECURSIVE Dedupe(_)
\* Array.from(new Set(list)): the first occurrence of each element is kept
Dedupe(list) ==
    IF list = <<>> THEN <<>>
    ELSE LET front == Dedupe(SubSeq(list, 1, Len(list) - 1))
             last == list[Len(list)]
         IN  IF last \in Range(front) THEN front ELSE front \o <<last>>

\* the Users table after storeUserCredentials({..., role, createdEvents});
\* readOk: its getUserByEmail did not fail. With a non-empty createdEvents
\* an existing record is updated and the lists are merged, and a new record
\* is put otherwise; without createdEvents a record is put that takes
\* createdEvents and createdAt from the record that was read
storeUserCredentials(table, userId, role, createdEvents, readOk) ==
    LET existingUser == IF readOk THEN table[userId] ELSE NoUser
    IN  IF createdEvents # <<>>
        THEN IF existingUser.exists
             THEN [table EXCEPT ![userId] =
                      UserRec(TRUE,
                              IF role # None THEN role ELSE existingUser.role,
                              TRUE,
                              IF existingUser.hasEvents
                              THEN Dedupe(existingUser.createdEvents
                                          \o createdEvents)
                              ELSE createdEvents,
                              table[userId].createdAt)]
             ELSE [table EXCEPT ![userId] =
                      UserRec(TRUE, role, TRUE, createdEvents, NewDate)]
        ELSE [table EXCEPT ![userId] =
                 UserRec(TRUE, role,
                         existingUser.exists /\ existingUser.hasEvents,
                         IF existingUser.exists /\ existingUser.hasEvents
                         THEN existingUser.createdEvents ELSE <<>>,
                         IF existingUser.exists
                            /\ existingUser.createdAt # None
                         THEN existingUser.createdAt ELSE NewDate)]

\* the events whose attribute attr is value, oldest first
RECURSIVE BySerial(_)
BySerial(set) ==
    IF set = {} THEN <<>>
    ELSE LET first == CHOOSE e \in set : \A f \in set : e.serial <= f.serial
         IN  <<first>> \o BySerial(set \ {first})

getUserEvents(table, email) == BySerial({e \in table : e.userEmail = email})
getEventsByOrganizerId(table, id) == BySerial({e \in table : e.organizerId = id})
getEventsByUserId(table, id) == BySerial({e \in table : e.userId = id})

RECURSIVE PushMissing(_, _)
\* list.forEach(e => { if (!allEvents.some(x => x.id === e.id)) allEvents.push(e) })
PushMissing(allEvents, list) ==
    IF list = <<>> THEN allEvents
    ELSE PushMissing(
             IF \E k \in 1..Len(allEvents) : allEvents[k].id = Head(list).id
             THEN allEvents ELSE allEvents \o <<Head(list)>>,
             Tail(list))

\* allEvents of loadEvents for the signed-in user
loadEvents(table, userEmail) ==
    PushMissing(PushMissing(getUserEvents(table, userEmail),
                            getEventsByOrganizerId(table, userEmail)),
                getEventsByUserId(table, userEmail))

\* deleteEvent(eventId, userEmail): the events left when the requester is the
\* recorded owner of the event; the table is unchanged otherwise
deleteEvent(table, eventId, requester) ==
    {e \in table : ~(e.id = eventId /\ e.userEmail = requester)}

\* collided counts the lookups of generateUniqueEventId that found an event;
\* userStored is the value storeUserCredentials returned
CrIdle == [pc |-> "idle", eventId |-> <<>>, attempts |-> 0, collided |-> 0,
           eventIds |-> <<>>, checkedFree |-> FALSE, userStored |-> TRUE,
           outcome |-> None]

NoConfirmation == [isOpen |-> FALSE, eventId |-> <<>>, userEmail |-> ""]

\* what the handlers of the organizer dashboards leave alone
nonOrganizerVars ==
    <<s3ImageCounts, gateway, dashVars, uploadPageVars, upl, selfiesLeft,
      unsignedTable, navbarVars, cameraVars, compareVars, statsVars>>

\* handleCreateEvent returns: its locals are gone, the outcome is kept
CrEnds(o, outcome) == [cr EXCEPT ![o] = [CrIdle EXCEPT !.outcome = outcome]]

(***************************************************************************)
(* generateUniqueEventId, as the first steps of handleCreateEvent          *)
(***************************************************************************)
\* the form is submitted without a name, a date or a cover image
CreateInvalid(o) ==
    /\ cr[o].pc = "idle" /\ createsLeft > 0
    /\ createsLeft' = createsLeft - 1
    /\ alertMessage' = [alertMessage EXCEPT ![o] = "Please fill in all required fields including cover image"]
    /\ cr' = [cr EXCEPT ![o] = [CrIdle EXCEPT !.outcome = "Invalid"]]
    /\ UNCHANGED <<nonOrganizerVars, s3Objects, eventsTable, usersTable, coverObjects,
                   events, deleteConfirmation, isLoading, navigatedTo,
                   deletesLeft, nextSerial, lastDelete>>

\* the form is valid: an id is generated and its first lookup is sent
CreateStarts(o) ==
    /\ cr[o].pc = "idle" /\ createsLeft > 0
    /\ createsLeft' = createsLeft - 1
    /\ isLoading' = [isLoading EXCEPT ![o] = TRUE]
    /\ \E k \in RandomDraws :
          cr' = [cr EXCEPT ![o] = [CrIdle EXCEPT !.pc = "genCheck",
                                       !.eventId = generateSixDigitId(k),
                                       !.attempts = 1]]
    /\ UNCHANGED <<nonOrganizerVars, s3Objects, eventsTable, usersTable, coverObjects,
                   events, deleteConfirmation, alertMessage, navigatedTo,
                   deletesLeft, nextSerial, lastDelete>>

\* getEventById reports no event: the id is taken as unique
GenCheckFree(o) ==
    /\ cr[o].pc = "genCheck"
    /\ [ok |-> TRUE, event |-> NoEvent] \in GetEventByIdResults(cr[o].eventId)
    /\ cr' = [cr EXCEPT ![o].pc = "cover", ![o].checkedFree = TRUE]
    /\ UNCHANGED <<nonOrganizerVars, s3Objects, eventsTable, usersTable, coverObjects,
                   events, deleteConfirmation, isLoading, alertMessage,
                   navigatedTo, createsLeft, deletesLeft, nextSerial,
                   lastDelete>>

\* getEventById throws: the id is assumed to be unique
GenCheckThrows(o) ==
    /\ cr[o].pc = "genCheck"
    /\ [ok |-> FALSE, event |-> NoEvent] \in GetEventByIdResults(cr[o].eventId)
    /\ cr' = [cr EXCEPT ![o].pc = "cover"]
    /\ UNCHANGED <<nonOrganizerVars, s3Objects, eventsTable, usersTable, coverObjects,
                   events, deleteConfirmation, isLoading, alertMessage,
                   navigatedTo, createsLeft, deletesLeft, nextSerial,
                   lastDelete>>

\* a generator that gives up when its last lookup finds an event
GenCheckCollidesGivesUp(o) ==
    /\ cr[o].pc = "genCheck"
    /\ \E r \in GetEventByIdResults(cr[o].eventId) : r.ok /\ r.event # NoEvent
    /\ IF cr[o].attempts < maxAttempts
       THEN /\ \E k \in RandomDraws :
                  cr' = [cr EXCEPT ![o].eventId = generateSixDigitId(k),
                                   ![o].attempts = @ + 1,
                                   ![o].collided = @ + 1]
            /\ UNCHANGED <<alertMessage, isLoading>>
       ELSE /\ alertMessage' = [alertMessage EXCEPT ![o] = "Failed to create event"]
            /\ isLoading' = [isLoading EXCEPT ![o] = FALSE]
            /\ cr' = [cr EXCEPT ![o] = [CrIdle EXCEPT !.outcome = "Error"]]
    /\ UNCHANGED <<nonOrganizerVars, s3Objects, eventsTable, usersTable,
                   coverObjects, events, deleteConfirmation, navigatedTo,
                   createsLeft, deletesLeft, nextSerial, lastDelete>>

\* getEventById finds an event: another id is generated, and checked while
\* attempts remain
GenCheckCollides(o) ==
    /\ cr[o].pc = "genCheck"
    /\ \E r \in GetEventByIdResults(cr[o].eventId) : r.ok /\ r.event # NoEvent
    /\ \E k \in RandomDraws :
          cr' = [cr EXCEPT
                    ![o].eventId = generateSixDigitId(k),
                    ![o].collided = @ + 1,
                    ![o].attempts =
                        IF @ < maxAttempts THEN @ + 1 ELSE @,
                    ![o].pc =
                        IF cr[o].attempts < maxAttempts THEN "genCheck"
                        ELSE "cover"]
    /\ UNCHANGED <<nonOrganizerVars, s3Objects, eventsTable, usersTable, coverObjects,
                   events, deleteConfirmation, isLoading, alertMessage,
                   navigatedTo, createsLeft, deletesLeft, nextSerial,
                   lastDelete>>

(***************************************************************************)
(* handleCreateEvent after the id                                          *)
(***************************************************************************)
\* a step of handleCreateEvent throws: the alert, and isLoading is reset
CreateFails(o, message) ==
    /\ alertMessage' = [alertMessage EXCEPT ![o] = message]
    /\ isLoading' = [isLoading EXCEPT ![o] = FALSE]
    /\ cr' = CrEnds(o, "Error")

CoverUploadFails(o) ==
    /\ cr[o].pc = "cover"
    /\ CreateFails(o, "Failed to upload cover image. Please try again.")
    /\ UNCHANGED <<nonOrganizerVars, s3Objects, eventsTable, usersTable, coverObjects,
                   events, deleteConfirmation, navigatedTo, createsLeft,
                   deletesLeft, nextSerial, lastDelete>>

\* the cover is put under events/shared/{eventId}/cover.jpg
CoverUploaded(o) ==
    /\ cr[o].pc = "cover"
    /\ coverObjects' = coverObjects \cup {<<"events", cr[o].eventId, "cover.jpg">>}
    /\ s3Objects' = s3Objects \cup {CoverObject(cr[o].eventId)}
    /\ cr' = [cr EXCEPT ![o].pc = "getUser"]
    /\ UNCHANGED <<nonOrganizerVars, eventsTable, usersTable, events,
                   deleteConfirmation, isLoading, alertMessage, navigatedTo,
                   createsLeft, deletesLeft, nextSerial, lastDelete>>

\* getUserByEmail returns (null when the read fails): the new id is pushed
\* onto the user's createdEvents
GetUserReturns(o) ==
    /\ cr[o].pc = "getUser"
    /\ \E readOk \in BOOLEAN :
          LET existingUser == IF readOk THEN usersTable[o] ELSE NoUser
              eventIds == (IF existingUser.hasEvents
                           THEN existingUser.createdEvents ELSE <<>>)
                          \o <<cr[o].eventId>>
          IN  cr' = [cr EXCEPT ![o].pc = "storeUser", ![o].eventIds = eventIds]
    /\ UNCHANGED <<nonOrganizerVars, s3Objects, eventsTable, usersTable, coverObjects,
                   events, deleteConfirmation, isLoading, alertMessage,
                   navigatedTo, createsLeft, deletesLeft, nextSerial,
                   lastDelete>>

\* storeUserCredentials returns; its result is not looked at
StoreUserReturns(o) ==
    /\ cr[o].pc = "storeUser"
    /\ \E readOk \in BOOLEAN, writeOk \in BOOLEAN :
          /\ usersTable' =
                 IF writeOk
                 THEN storeUserCredentials(usersTable, o, "organizer",
                                           cr[o].eventIds, readOk)
                 ELSE usersTable
          /\ cr' = [cr EXCEPT ![o].pc = "storeEvent",
                              ![o].userStored = writeOk]
    /\ UNCHANGED <<nonOrganizerVars, s3Objects, eventsTable, coverObjects, events,
                   deleteConfirmation, isLoading, alertMessage, navigatedTo,
                   createsLeft, deletesLeft, nextSerial, lastDelete>>

\* storeEventData(eventData): the event record is added to the directory
storeEventData(table, eventData) == table \cup {eventData}

StoreEventFails(o) ==
    /\ cr[o].pc = "storeEvent"
    /\ CreateFails(o, "Failed to store event data")
    /\ UNCHANGED <<nonOrganizerVars, s3Objects, eventsTable, usersTable, coverObjects,
                   events, deleteConfirmation, navigatedTo, createsLeft,
                   deletesLeft, nextSerial, lastDelete>>

StoreEventReturns(o) ==
    /\ cr[o].pc = "storeEvent"
    /\ eventsTable' =
           storeEventData(eventsTable, EventRec(cr[o].eventId, o, o, nextSerial))
    /\ nextSerial' = nextSerial + 1
    /\ cr' = [cr EXCEPT ![o].pc = "reload"]
    /\ UNCHANGED <<nonOrganizerVars, s3Objects, usersTable, coverObjects, events,
                   deleteConfirmation, isLoading, alertMessage, navigatedTo,
                   createsLeft, deletesLeft, lastDelete>>

\* loadEventStatistics and loadEvents return: on to the upload page
CreateDone(o) ==
    /\ cr[o].pc = "reload"
    /\ events' = [events EXCEPT ![o] = loadEvents(eventsTable, o)]
    /\ navigatedTo' = [navigatedTo EXCEPT ![o] = cr[o].eventId]
    /\ isLoading' = [isLoading EXCEPT ![o] = FALSE]
    /\ cr' = CrEnds(o, "Done")
    /\ UNCHANGED <<nonOrganizerVars, s3Objects, eventsTable, usersTable, coverObjects,
                   deleteConfirmation, alertMessage, createsLeft, deletesLeft,
                   nextSerial, lastDelete>>

(***************************************************************************)
(* loadEvents on mount, handleDeleteClick, handleConfirmDelete             *)
(***************************************************************************)
LoadEvents(o) ==
    /\ events[o] # loadEvents(eventsTable, o)
    /\ events' = [events EXCEPT ![o] = loadEvents(eventsTable, o)]
    /\ UNCHANGED <<nonOrganizerVars, s3Objects, eventsTable, usersTable, coverObjects,
                   deleteConfirmation, isLoading, alertMessage, navigatedTo,
                   cr, createsLeft, deletesLeft, nextSerial, lastDelete>>

\* handleDeleteClick(eventId, userEmail) on the dashboard of o
handleDeleteClick(o, eventId, userEmail) ==
    /\ deletesLeft > 0
    /\ ~deleteConfirmation[o].isOpen
    /\ deleteConfirmation' =
           [deleteConfirmation EXCEPT
               ![o] = [isOpen |-> TRUE, eventId |-> eventId,
                       userEmail |-> userEmail]]
    /\ UNCHANGED <<nonOrganizerVars, s3Objects, eventsTable, usersTable, coverObjects,
                   events, isLoading, alertMessage, navigatedTo, cr,
                   createsLeft, deletesLeft, nextSerial, lastDelete>>

\* the Delete button of the k-th listed event:
\* onClick={() => handleDeleteClick(event.id, event.userEmail)}
DeleteButton(o, k) ==
    handleDeleteClick(o, events[o][k].id, events[o][k].userEmail)

\* deleteEvent reports success: the event is gone, the list is reloaded, the
\* dialog is closed
ConfirmDeleteSucceeds(o) ==
    /\ deletesLeft > 0
    /\ deleteConfirmation[o].isOpen
    /\ deleteConfirmation[o].eventId # <<>>
    /\ deleteConfirmation[o].userEmail # ""
    /\ LET after == deleteEvent(eventsTable, deleteConfirmation[o].eventId,
                                deleteConfirmation[o].userEmail)
       IN  /\ after # eventsTable
           /\ eventsTable' = after
           /\ lastDelete' = [by |-> o, removed |-> eventsTable \ after]
           /\ events' = [events EXCEPT ![o] = loadEvents(after, o)]
    /\ deleteConfirmation' = [deleteConfirmation EXCEPT ![o] = NoConfirmation]
    /\ deletesLeft' = deletesLeft - 1
    /\ UNCHANGED <<nonOrganizerVars, s3Objects, usersTable, coverObjects,
                   isLoading, alertMessage, navigatedTo, cr, createsLeft,
                   nextSerial>>

\* deleteEvent reports failure or throws: an alert, the dialog stays open
ConfirmDeleteFails(o) ==
    /\ deletesLeft > 0
    /\ deleteConfirmation[o].isOpen
    /\ deleteConfirmation[o].eventId # <<>>
    /\ deleteConfirmation[o].userEmail # ""
    /\ alertMessage' = [alertMessage EXCEPT ![o] = "Failed to delete event. Please try again."]
    /\ deletesLeft' = deletesLeft - 1
    /\ UNCHANGED <<nonOrganizerVars, s3Objects, eventsTable, usersTable, coverObjects,
                   events, deleteConfirmation, isLoading, navigatedTo, cr,
                   createsLeft, nextSerial, lastDelete>>

\* the dialog is cancelled
CancelDelete(o) ==
    /\ deleteConfirmation[o].isOpen
    /\ deleteConfirmation' = [deleteConfirmation EXCEPT ![o] = NoConfirmation]
    /\ UNCHANGED <<nonOrganizerVars, s3Objects, eventsTable, usersTable, coverObjects,
                   events, isLoading, alertMessage, navigatedTo, cr,
                   createsLeft, deletesLeft, nextSerial, lastDelete>>

(***************************************************************************)
(* AttendeeDashboard: startCamera, stopCamera, captureImage,               *)
(* handleUpdateSelfie and the effects that clean up the camera             *)
(***************************************************************************)
MsgCamera == "Could not access camera. "
MsgCapture == "Failed to capture image. Please try again."

\* the locals of startCamera and of captureImage; stream and videoRef of
\* cap are the values of the render whose button was clicked
CamIdle == [pc |-> "idle", videoStream |-> 0]
CapIdle == [pc |-> "idle", stream |-> 0, videoRef |-> FALSE]

\* what the camera handlers leave alone
nonCameraVars ==
    <<eventsTable, s3ImageCounts, gateway, organizerVars, uploadPageVars,
      s3Objects, unsignedTable, navbarVars, attendeeTable, localStorage,
      eventDetails, selfieUrl, attendedEvents, matchingImages,
      processingStatus, isUploading, showSignInModal, statusTimer, sub,
      submitsLeft, url, urlLeft, upl, compareVars, statsVars>>

\* stopCamera of a render in which stream and videoRef had these values:
\* the tracks of that stream and of the video element are stopped; the
\* state of an unmounted component is not set any more
stopCamera(closureStream, closureVideoRef) ==
    /\ liveTracks' =
           liveTracks \ ({closureStream}
                         \cup (IF closureVideoRef THEN {srcObject} ELSE {}))
    /\ srcObject' = IF closureVideoRef THEN 0 ELSE srcObject
    /\ stream' = IF mounted /\ closureStream # 0 THEN 0 ELSE stream
    /\ videoRef' = IF mounted THEN FALSE ELSE videoRef
    /\ isCameraActive' = IF mounted THEN FALSE ELSE isCameraActive

\* the Update button: the modal opens and startCamera asks for the camera
\* (the runs press it only when no earlier startCamera is still waiting)
handleUpdateSelfie ==
    /\ mounted /\ ~showCameraModal
    /\ cam.pc = "idle" /\ camerasLeft > 0
    /\ camerasLeft' = camerasLeft - 1
    /\ error' = None
    /\ successMessage' = None
    /\ showCameraModal' = TRUE
    /\ cam' = [CamIdle EXCEPT !.pc = "getUserMedia"]
    /\ UNCHANGED <<nonCameraVars, selfiesLeft, mounted, isCameraActive,
                   stream, videoRef, srcObject, liveTracks, cap>>

\* the permission is denied or getUserMedia rejects
StartCameraThrows ==
    /\ cam.pc = "getUserMedia"
    /\ error' = IF mounted THEN MsgCamera ELSE error
    /\ isCameraActive' = IF mounted THEN FALSE ELSE isCameraActive
    /\ cam' = CamIdle
    /\ UNCHANGED <<nonCameraVars, selfiesLeft, successMessage, mounted,
                   showCameraModal, stream, videoRef, srcObject, liveTracks,
                   cap, camerasLeft>>

\* getUserMedia resolves with a stream of one live track
StartCameraGranted ==
    /\ cam.pc = "getUserMedia"
    /\ LET videoStream == camerasLeft + 1
       IN  /\ liveTracks' = liveTracks \cup {videoStream}
           /\ stream' = IF mounted THEN videoStream ELSE stream
           /\ cam' = [pc |-> "timer", videoStream |-> videoStream]
    /\ isCameraActive' = IF mounted THEN TRUE ELSE isCameraActive
    /\ error' = IF mounted THEN None ELSE error
    /\ UNCHANGED <<nonCameraVars, selfiesLeft, successMessage, mounted,
                   showCameraModal, videoRef, srcObject, cap, camerasLeft>>

\* the timer of startCamera fires: the stream is attached to the video
\* element if the modal shows one
VideoAttached ==
    /\ cam.pc = "timer"
    /\ IF mounted /\ showCameraModal /\ isCameraActive
       THEN srcObject' = cam.videoStream /\ videoRef' = TRUE
       ELSE UNCHANGED <<srcObject, videoRef>>
    /\ cam' = CamIdle
    /\ UNCHANGED <<nonCameraVars, selfiesLeft, error, successMessage,
                   mounted, showCameraModal, isCameraActive, stream,
                   liveTracks, cap, camerasLeft>>

\* the close button of the camera modal
CloseCameraModal ==
    /\ mounted /\ showCameraModal
    /\ stopCamera(stream, videoRef)
    /\ showCameraModal' = FALSE
    /\ UNCHANGED <<nonCameraVars, selfiesLeft, error, successMessage,
                   mounted, cam, cap, camerasLeft>>

\* the Capture button: captureImage up to its wait for the blob
captureImage ==
    /\ mounted /\ showCameraModal /\ isCameraActive
    /\ videoRef /\ stream # 0
    /\ cap.pc = "idle" /\ upl.pc = "idle" /\ selfiesLeft > 0
    /\ selfiesLeft' = selfiesLeft - 1
    /\ cap' = [pc |-> "toBlob", stream |-> stream, videoRef |-> videoRef]
    /\ UNCHANGED <<nonCameraVars, error, successMessage, mounted,
                   showCameraModal, isCameraActive, stream, videoRef,
                   srcObject, liveTracks, cam, camerasLeft>>

\* captureImage throws before uploadSelfie is called: its catch
CaptureThrows ==
    /\ cap.pc = "toBlob"
    /\ error' = IF mounted THEN MsgCapture ELSE error
    /\ stopCamera(cap.stream, cap.videoRef)
    /\ cap' = CapIdle
    /\ UNCHANGED <<nonCameraVars, selfiesLeft, successMessage, mounted,
                   showCameraModal, cam, camerasLeft>>

\* uploadSelfie has returned to captureImage: the modal is closed
CaptureEnds ==
    /\ showCameraModal' = IF mounted THEN FALSE ELSE showCameraModal
    /\ cap' = CapIdle
    /\ UNCHANGED <<mounted, isCameraActive, stream, videoRef, srcObject,
                   liveTracks, cam, camerasLeft>>

\* visibilitychange with the page hidden, or beforeunload: the stopCamera of
\* the first render, in which stream and videoRef are null
PageHidden ==
    /\ mounted
    /\ stopCamera(0, FALSE)
    /\ UNCHANGED <<nonCameraVars, selfiesLeft, error, successMessage,
                   mounted, showCameraModal, cam, cap, camerasLeft>>

\* the dashboard is unmounted: the cleanup of the effect calls the
\* stopCamera of the first render
Unmount ==
    /\ mounted
    /\ mounted' = FALSE
    /\ UNCHANGED <<nonCameraVars, selfiesLeft, error, successMessage,
                   showCameraModal, isCameraActive, stream, videoRef,
                   srcObject, liveTracks, cam, cap, camerasLeft>>

(***************************************************************************)
(* AttendeeDashboard.uploadSelfie, as called by captureImage               *)
(***************************************************************************)
UplIdle == [pc |-> "idle", userEmail |-> "", selfieUrl |-> NoUrl,
            hadEvents |-> FALSE,
            updateResult |-> TRUE, defaultSelfieResult |-> TRUE,
            outcome |-> None]

MsgSelfieUpdated == "Your selfie has been updated successfully!"
MsgSelfieFailed == "Error updating your selfie. Please try again."
StatusUpdatingSelfie == "Updating your selfie..."

\* https://{bucket}.s3.amazonaws.com/users/{email}/selfies/selfie-{now}-{name}
NewSelfieUrl(userEmail, now) == <<s3BucketUrl, SelfiePath(userEmail, now)>>

\* the records of the attendee table under a user id, and their change
RecordsOf(userEmail) ==
    IF userEmail = "" THEN unsignedTable ELSE attendeeTable
RecordsBecome(userEmail, table) ==
    /\ attendeeTable' = IF userEmail = "" THEN attendeeTable ELSE table
    /\ unsignedTable' = IF userEmail = "" THEN table ELSE unsignedTable

\* getAllAttendeeImagesByUser(userEmail): the user's records
getAllAttendeeImagesByUser(table) ==
    {table[e] : e \in {d \in DOMAIN table : table[d] # NoRecord}}

\* updateUserSelfieURL(userEmail, selfieUrl) having updated the records of the
\* event ids in done
updateUserSelfieURL(table, newUrl, done) ==
    [e \in DOMAIN table |->
        IF e \in done /\ table[e] # NoRecord
        THEN [table[e] EXCEPT !.selfieURL = newUrl] ELSE table[e]]

\* storeUserDefaultSelfie(userEmail, selfieUrl): the record of the reserved
\* event id holds the selfie
storeUserDefaultSelfie(table, newUrl) ==
    [table EXCEPT ![DefaultId] =
        IF @ = NoRecord THEN AttendeeRec(DefaultId, newUrl, <<>>)
        ELSE [@ EXCEPT !.selfieURL = newUrl]]

\* what uploadSelfie leaves alone
nonSelfieVars ==
    <<eventsTable, s3ImageCounts, gateway, organizerVars, uploadPageVars,
      localStorage, eventDetails, attendedEvents, matchingImages, isUploading,
      showSignInModal, statusTimer, sub, submitsLeft, url, urlLeft,
      navbarVars, uac, comparesLeft, statsVars>>

\* the blob of captureImage is ready: the camera is stopped and uploadSelfie
\* runs up to its upload
UploadSelfieStarts ==
    /\ cap.pc = "toBlob" /\ upl.pc = "idle"
    /\ stopCamera(cap.stream, cap.videoRef)
    /\ cap' = [cap EXCEPT !.pc = "uploadSelfie"]
    /\ selfieFile' = TRUE
    /\ error' = None
    /\ successMessage' = None
    /\ processingStatus' = StatusUpdatingSelfie
    /\ LET userEmail == IF localStorage.userEmail = None THEN ""
                        ELSE localStorage.userEmail
       IN  upl' = [UplIdle EXCEPT
                      !.pc = "upload",
                      !.userEmail = userEmail,
                      !.selfieUrl = NewSelfieUrl(userEmail, 10 + selfiesLeft)]
    /\ UNCHANGED <<nonSelfieVars, s3Objects, attendeeTable, unsignedTable,
                   selfieUrl, selfiesLeft, mounted, showCameraModal, cam,
                   camerasLeft>>

\* a step of uploadSelfie throws
UploadSelfieThrows ==
    /\ upl.pc \in {"upload", "getAll", "update", "storeDefault"}
    /\ error' = MsgSelfieFailed
    /\ processingStatus' = None
    /\ upl' = [upl EXCEPT !.pc = "idle", !.outcome = "Error"]
    /\ CaptureEnds
    /\ UNCHANGED <<nonSelfieVars, selfieFile, s3Objects, attendeeTable, unsignedTable,
                   selfieUrl, successMessage, selfiesLeft>>

UploadSelfieStored ==
    /\ upl.pc = "upload"
    /\ s3Objects' = s3Objects \cup {UserSelfieObject(upl.selfieUrl)}
    /\ upl' = [upl EXCEPT !.pc = "getAll"]
    /\ UNCHANGED <<nonSelfieVars, selfieFile, attendeeTable, unsignedTable, selfieUrl,
                   error, successMessage, processingStatus, selfiesLeft,
                   cameraVars>>

\* getAllAttendeeImagesByUser returns: the records are updated only when
\* there are any
GetAllReturns ==
    /\ upl.pc = "getAll"
    /\ LET userEvents == getAllAttendeeImagesByUser(RecordsOf(upl.userEmail))
       IN  upl' = [upl EXCEPT
                      !.hadEvents = userEvents # {},
                      !.pc = IF userEvents # {} THEN "update"
                             ELSE "storeDefault"]
    /\ UNCHANGED <<nonSelfieVars, selfieFile, s3Objects, attendeeTable, unsignedTable,
                   selfieUrl, error, successMessage, processingStatus,
                   selfiesLeft, cameraVars>>

\* updateUserSelfieURL returns true, every record updated
UpdateSelfieReturns ==
    /\ upl.pc = "update"
    /\ RecordsBecome(upl.userEmail,
           updateUserSelfieURL(RecordsOf(upl.userEmail), upl.selfieUrl,
                               DOMAIN RecordsOf(upl.userEmail)))
    /\ upl' = [upl EXCEPT !.pc = "storeDefault"]
    /\ UNCHANGED <<nonSelfieVars, selfieFile, s3Objects, selfieUrl, error, successMessage,
                   processingStatus, selfiesLeft, cameraVars>>

\* updateUserSelfieURL returns false, some record not updated: a warning only
UpdateSelfieFails ==
    /\ upl.pc = "update"
    /\ LET table == RecordsOf(upl.userEmail)
       IN  \E done \in SUBSET DOMAIN table :
              /\ \E e \in DOMAIN table \ done : table[e] # NoRecord
              /\ RecordsBecome(upl.userEmail,
                     updateUserSelfieURL(table, upl.selfieUrl, done))
    /\ upl' = [upl EXCEPT !.pc = "storeDefault", !.updateResult = FALSE]
    /\ UNCHANGED <<nonSelfieVars, selfieFile, s3Objects, selfieUrl, error, successMessage,
                   processingStatus, selfiesLeft, cameraVars>>

\* the rest of uploadSelfie once storeUserDefaultSelfie has returned
SelfieUpdated ==
    /\ selfieUrl' = upl.selfieUrl
    /\ processingStatus' = None
    /\ successMessage' = MsgSelfieUpdated
    /\ CaptureEnds
    /\ UNCHANGED <<nonSelfieVars, selfieFile, s3Objects, error, selfiesLeft>>

StoreDefaultReturns ==
    /\ upl.pc = "storeDefault"
    /\ RecordsBecome(upl.userEmail,
           storeUserDefaultSelfie(RecordsOf(upl.userEmail), upl.selfieUrl))
    /\ upl' = [upl EXCEPT !.pc = "idle", !.outcome = "Done"]
    /\ SelfieUpdated

\* storeUserDefaultSelfie returns false: a warning only
StoreDefaultFails ==
    /\ upl.pc = "storeDefault"
    /\ UNCHANGED <<attendeeTable, unsignedTable>>
    /\ upl' = [upl EXCEPT !.pc = "idle", !.outcome = "Done",
                          !.defaultSelfieResult = FALSE]
    /\ SelfieUpdated

(***************************************************************************)
(* handleUploadAndCompare of the attendee dashboard                        *)
(***************************************************************************)
MsgSelectSelfie == "Please select a selfie and enter a valid event code"
MsgNoEventDetails == "Could not retrieve complete event details from database."
MsgRequestFailed == "An error occurred while processing your request."
MsgNoMatchingPhotos ==
    "No matching photos found. Please try again with a different selfie."
MsgFoundMatching == "Found matching photos!"
StatusUploadingSelfie == "Uploading selfie..."

\* the locals of an invocation that has not started; i counts the images
\* compared, matches are the urls pushed
UacIdle ==
    [pc |-> "idle", userEmail |-> None, event |-> NoEvent, selfieUrl |-> NoUrl,
     contents |-> <<>>, i |-> 0, matches |-> <<>>, outcome |-> None]

\* what handleUploadAndCompare never touches
nonCompareVars ==
    <<eventsTable, s3ImageCounts, gateway, organizerVars, uploadPageVars, upl,
      selfiesLeft, unsignedTable, navbarVars, cameraVars, eventDetails,
      selfieUrl, attendedEvents, statusTimer, sub, submitsLeft, url, urlLeft,
      statsVars>>

\* https://{bucket}.s3.amazonaws.com/events/shared/{id}/selfies/selfie-{now}-{name}
EventSelfieUrl(eventId, now) ==
    <<s3BucketUrl, <<"events", eventId, "selfies", now>>>>

\* Clear selfie selection
clearSelfie ==
    /\ selfieFile = TRUE
    /\ selfieFile' = FALSE
    /\ UNCHANGED <<nonCompareVars, s3Objects, attendeeTable, localStorage,
                   matchingImages, processingStatus, isUploading, error,
                   successMessage, showSignInModal, uac, comparesLeft>>

\* the button is pressed without a session: the sign-in modal is shown
CompareAuthRequired ==
    /\ uac.pc = "idle" /\ comparesLeft > 0
    /\ localStorage.userEmail = None
    /\ comparesLeft' = comparesLeft - 1
    /\ error' = MsgSignIn
    /\ localStorage' = [localStorage EXCEPT !.pendingAction = "getPhotos"]
    /\ showSignInModal' = TRUE
    /\ uac' = [UacIdle EXCEPT !.outcome = "AuthRequired"]
    /\ UNCHANGED <<nonCompareVars, selfieFile, s3Objects, attendeeTable, matchingImages,
                   processingStatus, isUploading, successMessage>>

\* the button is pressed without a selfie or without event details
CompareRejected ==
    /\ uac.pc = "idle" /\ comparesLeft > 0
    /\ localStorage.userEmail # None
    /\ selfieFile = FALSE \/ eventDetails = NoEvent
    /\ comparesLeft' = comparesLeft - 1
    /\ error' = MsgSelectSelfie
    /\ uac' = [UacIdle EXCEPT !.outcome = "Invalid"]
    /\ UNCHANGED <<nonCompareVars, selfieFile, s3Objects, attendeeTable, localStorage,
                   matchingImages, processingStatus, isUploading,
                   successMessage, showSignInModal>>

\* the button is pressed with a selfie and event details: up to getEventById
CompareStarts ==
    /\ uac.pc = "idle" /\ comparesLeft > 0
    /\ localStorage.userEmail # None
    /\ selfieFile = TRUE /\ eventDetails # NoEvent
    /\ comparesLeft' = comparesLeft - 1
    /\ isUploading' = TRUE
    /\ error' = None
    /\ successMessage' = None
    /\ processingStatus' = StatusUploadingSelfie
    /\ uac' = [UacIdle EXCEPT !.pc = "getEvent",
                              !.userEmail = localStorage.userEmail,
                              !.event = eventDetails]
    /\ UNCHANGED <<nonCompareVars, selfieFile, s3Objects, attendeeTable, localStorage,
                   matchingImages, showSignInModal>>

\* the catch and the finally of handleUploadAndCompare
CompareFails(message) ==
    /\ error' = message
    /\ isUploading' = FALSE
    /\ processingStatus' = None
    /\ uac' = [UacIdle EXCEPT !.outcome = "Error"]
    /\ UNCHANGED <<nonCompareVars, selfieFile, s3Objects, attendeeTable, localStorage,
                   matchingImages, successMessage, showSignInModal,
                   comparesLeft>>

\* getEventById throws or finds no event
CompareEventMissing ==
    /\ uac.pc = "getEvent"
    /\ \E r \in GetEventByIdResults(uac.event.id) :
          /\ ~r.ok \/ r.event = NoEvent
          /\ CompareFails(IF r.ok THEN MsgNoEventDetails ELSE MsgRequestFailed)

\* getEventById finds the event: the selfie is read and its upload sent
CompareEventFound ==
    /\ uac.pc = "getEvent"
    /\ \E r \in GetEventByIdResults(uac.event.id) : r.ok /\ r.event # NoEvent
    /\ uac' = [uac EXCEPT !.pc = "upload",
                          !.selfieUrl =
                              EventSelfieUrl(uac.event.id, 20 + comparesLeft)]
    /\ UNCHANGED <<nonCompareVars, selfieFile, s3Objects, attendeeTable, localStorage,
                   matchingImages, processingStatus, isUploading, error,
                   successMessage, showSignInModal, comparesLeft>>

\* the upload of the selfie, the listing of the images or the write of the
\* record throws
CompareRequestThrows ==
    /\ uac.pc \in {"upload", "list", "store"}
    /\ CompareFails(MsgRequestFailed)

\* the selfie is uploaded: the images of the event are listed
CompareSelfieUploaded ==
    /\ uac.pc = "upload"
    /\ s3Objects' = s3Objects \cup
           {S3Object("selfie", uac.event.id, "", <<uac.selfieUrl[2][4], <<>>>>,
                     "public-read")}
    /\ processingStatus' = StatusComparing
    /\ uac' = [uac EXCEPT !.pc = "list"]
    /\ UNCHANGED <<nonCompareVars, selfieFile, attendeeTable, localStorage, matchingImages,
                   isUploading, error, successMessage, showSignInModal,
                   comparesLeft>>

\* the listing has no Contents
CompareListEmpty ==
    /\ uac.pc = "list"
    /\ 0 \in s3ImageCounts
    /\ CompareFails(MsgNoImages)

\* the listing returns objects: the first is compared
CompareListReturns ==
    /\ uac.pc = "list"
    /\ \E n \in s3ImageCounts \ {0}, junk \in BOOLEAN :
          uac' = [uac EXCEPT !.pc = "compare",
                             !.contents = Contents(uac.event.id, n, junk)]
    /\ UNCHANGED <<nonCompareVars, selfieFile, s3Objects, attendeeTable, localStorage,
                   matchingImages, processingStatus, isUploading, error,
                   successMessage, showSignInModal, comparesLeft>>

\* compareFaces of the next object returns or throws; a result is pushed,
\* an error skips the object
CompareFacesReturns ==
    /\ uac.pc = "compare" /\ uac.i < Len(uac.contents)
    /\ \E r \in gateway :
          uac' = [uac EXCEPT
                     !.i = @ + 1,
                     !.matches =
                         IF r.ok /\ Len(r.FaceMatches) > 0
                         THEN @ \o <<ImageUrl(uac.contents[uac.i + 1])>>
                         ELSE @]
    /\ UNCHANGED <<nonCompareVars, selfieFile, s3Objects, attendeeTable, localStorage,
                   matchingImages, processingStatus, isUploading, error,
                   successMessage, showSignInModal, comparesLeft>>

\* every object is compared and none matched
CompareNoMatches ==
    /\ uac.pc = "compare" /\ uac.i = Len(uac.contents)
    /\ uac.matches = <<>>
    /\ CompareFails(MsgNoMatchingPhotos)

\* every object is compared and some matched: the record is sent
CompareMatches ==
    /\ uac.pc = "compare" /\ uac.i = Len(uac.contents)
    /\ uac.matches # <<>>
    /\ uac' = [uac EXCEPT !.pc = "store"]
    /\ UNCHANGED <<nonCompareVars, selfieFile, s3Objects, attendeeTable, localStorage,
                   matchingImages, processingStatus, isUploading, error,
                   successMessage, showSignInModal, comparesLeft>>

\* storeAttendeeImageData returns, its result is not looked at: the matches
\* are shown
CompareStored ==
    /\ uac.pc = "store"
    /\ \E ok \in BOOLEAN :
          attendeeTable' =
              storeAttendeeImageData(attendeeTable,
                  AttendeeRec(uac.event.id, uac.selfieUrl, uac.matches), ok)
    /\ matchingImages' = uac.matches
    /\ successMessage' = MsgFoundMatching
    /\ isUploading' = FALSE
    /\ processingStatus' = None
    /\ uac' = [UacIdle EXCEPT !.outcome = "Done"]
    /\ UNCHANGED <<nonCompareVars, selfieFile, s3Objects, localStorage, error,
                   showSignInModal, comparesLeft>>

NextCompareButton ==
    \/ clearSelfie
    \/ CompareAuthRequired
    \/ CompareRejected
    \/ CompareStarts
    \/ CompareEventMissing
    \/ CompareEventFound
    \/ CompareRequestThrows
    \/ CompareSelfieUploaded
    \/ CompareListEmpty
    \/ CompareListReturns
    \/ CompareFacesReturns
    \/ CompareNoMatches
    \/ CompareMatches
    \/ CompareStored

(***************************************************************************)
(* UploadImage.handleImageChange                                           *)
(***************************************************************************)
MAX_FILE_SIZE == 50 * 1024 * 1024
BATCH_SIZE == 20

UpperCase ==
    <<"A", "B", "C", "D", "E", "F", "G", "H", "I", "J", "K", "L", "M",
      "N", "O", "P", "Q", "R", "S", "T", "U", "V", "W", "X", "Y", "Z">>
LowerCase ==
    <<"a", "b", "c", "d", "e", "f", "g", "h", "i", "j", "k", "l", "m",
      "n", "o", "p", "q", "r", "s", "t", "u", "v", "w", "x", "y", "z">>

\* String.prototype.toLowerCase
toLowerCase(str) ==
    [k \in 1..Len(str) |->
        IF \E j \in 1..26 : UpperCase[j] = str[k]
        THEN LowerCase[CHOOSE j \in 1..26 : UpperCase[j] = str[k]]
        ELSE str[k]]

RECURSIVE includes(_, _)
\* String.prototype.includes: the text is scanned from its first character
includes(str, search) ==
    IF Len(str) < Len(search) THEN FALSE
    ELSE IF SubSeq(str, 1, Len(search)) = search THEN TRUE
    ELSE includes(Tail(str), search)

\* String.prototype.startsWith
startsWith(str, search) ==
    Len(str) >= Len(search) /\ SubSeq(str, 1, Len(search)) = search

File(name, type, size) == [name |-> name, type |-> type, size |-> size]

\* a filter that does not look at the file name
isValidFileByTypeAndSize(file) ==
    /\ startsWith(file.type, <<"i", "m", "a", "g", "e", "/">>)
    /\ file.size <= MAX_FILE_SIZE

\* the predicate of files.filter in handleImageChange
isValidFile(file) ==
    LET fileName == toLowerCase(file.name)
        isValidType == startsWith(file.type, <<"i", "m", "a", "g", "e", "/">>)
        isValidSize == file.size <= MAX_FILE_SIZE
        isNotSelfie == /\ ~includes(fileName, <<"s", "e", "l", "f", "i", "e">>)
                       /\ ~includes(fileName, <<"s", "e", "l", "f">>)
    IN  isValidType /\ isValidSize /\ isNotSelfie

RECURSIVE processBatches(_, _, _)
\* the for loop over validFiles: each slice of BATCH_SIZE files is appended to
\* the images by its processBatch
processBatches(prev, validFiles, i) ==
    IF i >= Len(validFiles) THEN prev
    ELSE processBatches(
             prev \o SubSeq(validFiles, i + 1, Min(i + BATCH_SIZE, Len(validFiles))),
             validFiles, i + BATCH_SIZE)

\* the files the user may pick
Jpeg == <<"i", "m", "a", "g", "e", "/", "j", "p", "e", "g">>
Png == <<"i", "m", "a", "g", "e", "/", "p", "n", "g">>
Mp4 == <<"v", "i", "d", "e", "o", "/", "m", "p", "4">>
FilePool ==
    {File(<<"s", "e", "l", "f", "i", "e", "_", "t", "e", "s", "t", ".", "j", "p", "g">>, Jpeg, 1024),
     File(<<"a", ".", "j", "p", "g">>, Jpeg, MAX_FILE_SIZE),
     File(<<"b", ".", "p", "n", "g">>, Png, MAX_FILE_SIZE + 1),
     File(<<"M", "y", "S", "e", "l", "f", ".", "p", "n", "g">>, Png, 2048),
     File(<<"c", ".", "m", "p", "4">>, Mp4, 4096),
     File(<<"d", ".", "j", "p", "g">>, Jpeg, 0)}

\* e.target.files: up to MaxSelect different files, in any order
Selections ==
    {files \in UNION {[1..n -> FilePool] : n \in 1..MaxSelect} :
        \A j, k \in 1..Len(files) : files[j] = files[k] => j = k}

handleImageChange(files) ==
    /\ changesLeft > 0
    /\ changesLeft' = changesLeft - 1
    /\ LET validFiles == SelectSeq(files, isValidFile)
       IN  /\ skippedAlert' = (Len(validFiles) # Len(files))
           /\ imagePreviews' =
                  imagePreviews \cup {validFiles[k].name : k \in 1..Len(validFiles)}
           /\ images' = processBatches(images, validFiles, 0)
    /\ lastFiles' = files
    /\ imagesBefore' = images
    /\ UNCHANGED <<eventsTable, s3ImageCounts, gateway, organizerVars, upl,
                   selfiesLeft, dashVars, s3Objects, unsignedTable,
                   navbarVars, cameraVars, compareVars, statsVars,
                   handleUploadVars>>

(***************************************************************************)
(* UploadImage.uploadToS3 and UploadImage.handleUpload                     *)
(***************************************************************************)
\* events/shared/{selectedEvent}/images/{Date.now()}-{image.name}: the
\* uploadParams of uploadToS3 name no ACL
ImageObject(eventId, now, image) ==
    S3Object("images", eventId, "", <<now, image.name>>, None)
\* `https://${S3_BUCKET_NAME}.s3.amazonaws.com/${imageUrl}`
UploadedUrl(eventId, now, image) ==
    <<s3BucketUrl, <<"events", eventId, "images", now, image.name>>>>

\* uploadProgress that is null
NoProgress == [current |-> -1, total |-> -1]

MsgSelectImage == "Please select at least one image to upload."
MsgSelectEvent == "Please select or create an event before uploading images."
MsgNotImage == "is not a valid image file"
MsgTooLarge == "exceeds the 50MB size limit"
MsgUploadFailed == "Failed to upload. Please try again."
\* alert() that was not called: <<text, image.name>>
NoAlert == <<None, <<>>>>

\* the locals of a handleUpload that has not started: the closure's images
\* and event, the uploadToS3 calls in flight, the promises of
\* uploadPromises that are fulfilled and rejected, and uploadedCount
HuIdle ==
    [pc |-> "idle", images |-> <<>>, selectedEvent |-> <<>>, now |-> 0,
     inflight |-> {}, fulfilled |-> {}, rejected |-> {},
     uploadedCount |-> 0, outcome |-> None]

\* what handleUpload and the uploads it started leave alone
nonHandleUploadVars ==
    <<eventsTable, s3ImageCounts, gateway, organizerVars, upl, selfiesLeft,
      attendeeTable, uiVars, sub, submitsLeft, url, urlLeft, images,
      imagePreviews, skippedAlert, lastFiles, imagesBefore, changesLeft,
      selectedEvent, unsignedTable, navbarVars, cameraVars, compareVars,
      statsVars>>

\* the button is pressed with nothing to upload or with no event selected
\* (the runs press it again only when no upload of an earlier press is left)
HandleUploadRejected ==
    /\ hu.pc = "idle" /\ uploadsLeft > 0
    /\ hu.inflight = {}
    /\ images = <<>> \/ selectedEvent = <<>>
    /\ uploadsLeft' = uploadsLeft - 1
    /\ uploadImageAlert' =
           IF images = <<>> THEN <<MsgSelectImage, <<>>>>
           ELSE <<MsgSelectEvent, <<>>>>
    /\ hu' = [HuIdle EXCEPT !.outcome = "Invalid"]
    /\ UNCHANGED <<nonHandleUploadVars, localStorage, s3Objects, uploadImageIsUploading,
                   uploadSuccess, uploadProgress, uploadedUrls, showQRModal>>

\* the message an image is rejected with before its upload, None if it is
\* not rejected
RejectedBeforeUpload(image) ==
    IF ~startsWith(image.type, <<"i", "m", "a", "g", "e", "/">>) THEN MsgNotImage
    ELSE IF image.size > MAX_FILE_SIZE THEN MsgTooLarge
    ELSE None

\* the catch and the finally of handleUpload: the message of the rejection
\* that settled Promise.all is shown
HandleUploadCatch(message, image) ==
    /\ uploadImageAlert' = <<message, image.name>>
    /\ uploadImageIsUploading' = FALSE
    /\ uploadProgress' = NoProgress
    /\ UNCHANGED <<uploadSuccess, uploadedUrls, showQRModal>>

\* the button is pressed: images.map starts every upload at once, and
\* Promise.all rejects at once when an image is rejected before its upload
HandleUploadStarts ==
    /\ hu.pc = "idle" /\ uploadsLeft > 0
    /\ hu.inflight = {}
    /\ images # <<>> /\ selectedEvent # <<>>
    /\ uploadsLeft' = uploadsLeft - 1
    /\ LET early == {k \in 1..Len(images) :
                        RejectedBeforeUpload(images[k]) # None}
           started == [HuIdle EXCEPT
                          !.images = images,
                          !.selectedEvent = selectedEvent,
                          !.now = 100 + uploadsLeft,
                          !.inflight = (1..Len(images)) \ early,
                          !.rejected = early]
       IN  IF early = {}
           THEN /\ hu' = [started EXCEPT !.pc = "awaitAll"]
                /\ uploadImageIsUploading' = TRUE
                /\ uploadSuccess' = FALSE
                /\ uploadProgress' = [current |-> 0, total |-> Len(images)]
                /\ UNCHANGED <<uploadedUrls, showQRModal, uploadImageAlert>>
           ELSE LET first == CHOOSE k \in early : \A j \in early : k <= j
                IN  /\ hu' = [started EXCEPT !.outcome = "Error"]
                    /\ uploadImageAlert' =
                           <<RejectedBeforeUpload(images[first]),
                             images[first].name>>
                    /\ uploadImageIsUploading' = FALSE
                    /\ uploadSuccess' = FALSE
                    /\ uploadProgress' = NoProgress
                    /\ UNCHANGED <<uploadedUrls, showQRModal>>
    /\ UNCHANGED <<nonHandleUploadVars, localStorage, s3Objects>>

\* the urls of Promise.all(uploadPromises), in the order of the images
UrlsOf(h) ==
    [k \in 1..Len(h.images) |-> UploadedUrl(h.selectedEvent, h.now, h.images[k])]

\* uploadToS3 of the k-th image returns: the object is in the bucket and the
\* progress is set, also after handleUpload has returned; the last promise
\* to be fulfilled resolves Promise.all
UploadToS3Returns(k) ==
    /\ k \in hu.inflight
    /\ s3Objects' =
           s3Objects \cup {ImageObject(hu.selectedEvent, hu.now, hu.images[k])}
    /\ LET after == [hu EXCEPT !.inflight = @ \ {k},
                               !.fulfilled = @ \cup {k},
                               !.uploadedCount = @ + 1]
       IN  IF hu.pc = "awaitAll" /\ after.fulfilled = 1..Len(hu.images)
           THEN /\ hu' = [after EXCEPT !.pc = "idle", !.outcome = "Done"]
                /\ uploadedUrls' = UrlsOf(hu)
                /\ localStorage' =
                       [localStorage EXCEPT !.currentEventId = hu.selectedEvent]
                /\ uploadSuccess' = TRUE
                /\ showQRModal' = TRUE
                /\ uploadImageIsUploading' = FALSE
                /\ uploadProgress' = NoProgress
           ELSE /\ hu' = after
                /\ uploadProgress' = [current |-> after.uploadedCount,
                                      total |-> Len(hu.images)]
                /\ UNCHANGED <<uploadedUrls, uploadSuccess, showQRModal,
                               uploadImageIsUploading, localStorage>>
    /\ UNCHANGED <<nonHandleUploadVars, uploadImageAlert, uploadsLeft>>

\* uploadToS3 of the k-th image throws: the first rejection rejects
\* Promise.all, a later one is only logged
UploadToS3Throws(k) ==
    /\ k \in hu.inflight
    /\ LET after == [hu EXCEPT !.inflight = @ \ {k}, !.rejected = @ \cup {k}]
       IN  IF hu.pc = "awaitAll"
           THEN /\ hu' = [after EXCEPT !.pc = "idle", !.outcome = "Error"]
                /\ HandleUploadCatch(MsgUploadFailed, hu.images[k])
           ELSE /\ hu' = after
                /\ UNCHANGED <<uploadImageAlert, uploadImageIsUploading,
                               uploadProgress, uploadSuccess, uploadedUrls,
                               showQRModal>>
    /\ UNCHANGED <<nonHandleUploadVars, localStorage, s3Objects, uploadsLeft>>

(***************************************************************************)
(* Navbar.handleSignIn and Navbar.handleLogout                             *)
(***************************************************************************)
MsgSignInFailed == "Failed to sign in. Please try again."
RouteCreate == "/events?create=true"
RouteDashboard == "/attendee-dashboard"
RouteHome == "/"

\* the locals of a handleSignIn that has not started
SgnIdle == [pc |-> "idle", email |-> None, pendingAction |-> None,
            role |-> None, outcome |-> None]

\* what handleSignIn and handleLogout leave alone
nonNavbarVars ==
    <<eventsTable, attendeeTable, unsignedTable, s3ImageCounts, gateway,
      s3Objects, coverObjects, events, deleteConfirmation, isLoading,
      alertMessage, navigatedTo, cr, createsLeft, deletesLeft, nextSerial,
      lastDelete, uploadPageVars, upl, selfiesLeft, eventDetails, selfieUrl,
      attendedEvents, matchingImages, processingStatus, isUploading, error,
      successMessage, statusTimer, sub, submitsLeft, url, urlLeft,
      cameraVars, compareVars, statsVars>>

\* no credential is received or it cannot be decoded: the catch
SignInFails ==
    /\ sgn.pc = "idle" /\ signInsLeft > 0
    /\ signInsLeft' = signInsLeft - 1
    /\ showSignInError' = MsgSignInFailed
    /\ sgn' = [SgnIdle EXCEPT !.outcome = "Error"]
    /\ UNCHANGED <<nonNavbarVars, usersTable, localStorage, showSignInModal,
                   isLoggedIn, userProfile, contextUserEmail, userRole, navType,
                   navbarNavigatedTo, logoutsLeft>>

\* handleSignIn up to its call of storeUserCredentials
SignInStarts(email) ==
    /\ sgn.pc = "idle" /\ signInsLeft > 0
    /\ signInsLeft' = signInsLeft - 1
    /\ LET pendingAction == localStorage.pendingAction
           role == IF pendingAction = "createEvent" THEN "organizer"
                   ELSE "attendee"
       IN  /\ navType' = IF pendingAction = "createEvent" THEN "organizer"
                         ELSE IF pendingAction = "getPhotos" THEN "attendee"
                         ELSE navType
           /\ sgn' = [SgnIdle EXCEPT !.pc = "store", !.email = email,
                                     !.pendingAction = pendingAction,
                                     !.role = role]
    /\ UNCHANGED <<nonNavbarVars, usersTable, localStorage, showSignInModal,
                   isLoggedIn, userProfile, contextUserEmail, userRole,
                   showSignInError, navbarNavigatedTo, logoutsLeft>>

\* storeUserCredentials returns, its result is not looked at: the session
\* is stored and the pending action is resumed
SignInStored ==
    /\ sgn.pc = "store"
    /\ \E readOk \in BOOLEAN, writeOk \in BOOLEAN :
          usersTable' =
              IF writeOk
              THEN storeUserCredentials(usersTable, sgn.email, sgn.role,
                                        <<>>, readOk)
              ELSE usersTable
    /\ LET pendingRedirectUrl == localStorage.pendingRedirectUrl
           redirects == sgn.pendingAction = "getPhotos"
                        /\ pendingRedirectUrl # None
       IN  /\ localStorage' =
                  [localStorage EXCEPT
                      !.userEmail = sgn.email,
                      !.userMobile = "",
                      !.googleToken = sgn.email,
                      !.userProfile = sgn.email,
                      !.pendingAction =
                          IF sgn.pendingAction # None THEN None ELSE @,
                      !.pendingRedirectUrl = IF redirects THEN None ELSE @]
           /\ navbarNavigatedTo' =
                  IF sgn.pendingAction = "createEvent" THEN RouteCreate
                  ELSE IF redirects THEN pendingRedirectUrl
                  ELSE IF sgn.pendingAction = "getPhotos" THEN RouteDashboard
                  ELSE navbarNavigatedTo
    /\ showSignInModal' = FALSE
    /\ userProfile' = sgn.email
    /\ contextUserEmail' = sgn.email
    /\ isLoggedIn' = TRUE
    /\ userRole' = sgn.role
    /\ sgn' = [sgn EXCEPT !.pc = "idle", !.outcome = "Done"]
    /\ UNCHANGED <<nonNavbarVars, navType, showSignInError, signInsLeft,
                   logoutsLeft>>

handleLogout ==
    /\ logoutsLeft > 0
    /\ logoutsLeft' = logoutsLeft - 1
    /\ isLoggedIn' = FALSE
    /\ userProfile' = None
    /\ userRole' = None
    /\ contextUserEmail' = None
    /\ navType' = None
    /\ localStorage' = [localStorage EXCEPT !.googleToken = None,
                                            !.userProfile = None,
                                            !.userEmail = None,
                                            !.userMobile = None,
                                            !.pendingAction = None,
                                            !.pendingRedirectUrl = None]
    /\ navbarNavigatedTo' = RouteHome
    /\ UNCHANGED <<nonNavbarVars, usersTable, showSignInModal,
                   showSignInError, sgn, signInsLeft>>

(***************************************************************************)
(* AttendeeDashboard: fetchUserData and the Events figure of Quick Stats   *)
(***************************************************************************)
\* the fetchUserData runs of one visit (the effect runs again when the
\* location changes)
MaxFetches == 2

\* useState({totalEvents: 0, ...}): of the statistics totalEvents is kept
NoStatistics == [totalEvents |-> 0]
FudIdle == [pc |-> "idle", userEmail |-> None, data |-> {}]

\* getAttendeeStatistics(userEmail): the event count is the number of the
\* user's records
getAttendeeStatistics(table) ==
    [totalEvents |-> Cardinality(getAllAttendeeImagesByUser(table))]

\* the figure of the Events row: {statistics.totalEvents - 1}
EventsShown == statistics.totalEvents - 1

\* the orders in which a listing may return the records of a set
Orderings(S) == {q \in [1..Cardinality(S) -> S] : Range(q) = S}
RECURSIVE imagesList(_)
imagesList(records) ==
    IF records = <<>> THEN <<>>
    ELSE Head(records).matchedImages \o imagesList(Tail(records))

\* what fetchUserData never touches
nonStatsVars ==
    <<eventsTable, s3ImageCounts, gateway, organizerVars, uploadPageVars, upl,
      selfiesLeft, s3Objects, unsignedTable, navbarVars, cameraVars,
      compareVars, attendeeTable, localStorage, eventDetails,
      processingStatus, isUploading, error, successMessage, statusTimer, sub,
      submitsLeft, url, urlLeft>>

\* the effect runs: userEmail is read, loading is set, the modules are
\* imported
fetchUserData ==
    /\ fud.pc = "idle" /\ fetchesLeft > 0
    /\ fetchesLeft' = fetchesLeft - 1
    /\ loading' = TRUE
    /\ fud' = [FudIdle EXCEPT !.pc = "import",
                              !.userEmail = localStorage.userEmail]
    /\ UNCHANGED <<nonStatsVars, statistics, selfieUrl, attendedEvents,
                   matchingImages, showSignInModal>>

\* nobody is signed in: the empty state, and the sign-in modal when a
\* getPhotos action is pending
FetchSignedOut ==
    /\ fud.pc = "import" /\ fud.userEmail = None
    /\ attendedEvents' = <<>>
    /\ matchingImages' = <<>>
    /\ statistics' = NoStatistics
    /\ showSignInModal' =
           IF localStorage.pendingAction = "getPhotos" THEN TRUE
           ELSE showSignInModal
    /\ loading' = FALSE
    /\ fud' = FudIdle
    /\ UNCHANGED <<nonStatsVars, selfieUrl, fetchesLeft>>

\* getAllAttendeeImagesByUser(userEmail) returns
FetchImagesReturn ==
    /\ fud.pc = "import" /\ fud.userEmail # None
    /\ fud' = [fud EXCEPT
                 !.pc = "statistics",
                 !.data = getAllAttendeeImagesByUser(RecordsOf(fud.userEmail))]
    /\ UNCHANGED <<nonStatsVars, statistics, loading, fetchesLeft, selfieUrl,
                   attendedEvents, matchingImages, showSignInModal>>

\* getAttendeeStatistics(userEmail) returns: setStatistics(userStats)
FetchStatisticsReturn ==
    /\ fud.pc = "statistics"
    /\ statistics' = getAttendeeStatistics(RecordsOf(fud.userEmail))
    /\ fud' = [fud EXCEPT
                 !.pc = IF fud.data # {} THEN "events" ELSE "defaultSelfie"]
    /\ UNCHANGED <<nonStatsVars, loading, fetchesLeft, selfieUrl,
                   attendedEvents, matchingImages, showSignInModal>>

\* the event of every record but the default one has been fetched: the
\* lists are set, and the selfie is the default one or that of the most
\* recent record
FetchEventsReturn ==
    /\ fud.pc = "events"
    /\ LET eventRecords == {r \in fud.data : r.eventId # DefaultId}
           defaults == {r \in fud.data : r.eventId = DefaultId}
       IN  /\ \E q \in Orderings(eventRecords) :
                  /\ attendedEvents' = [k \in 1..Len(q) |-> q[k].eventId]
                  /\ matchingImages' = imagesList(q)
           /\ \E r \in IF defaults # {} THEN defaults ELSE eventRecords :
                  selfieUrl' = r.selfieURL
    /\ loading' = FALSE
    /\ fud' = FudIdle
    /\ UNCHANGED <<nonStatsVars, statistics, fetchesLeft, showSignInModal>>

\* the user has no record: getUserDefaultSelfie(userEmail) returns
FetchDefaultSelfieReturn ==
    /\ fud.pc = "defaultSelfie"
    /\ LET defaultSelfie == RecordsOf(fud.userEmail)[DefaultId].selfieURL
       IN  selfieUrl' = IF defaultSelfie # NoUrl THEN defaultSelfie
                        ELSE selfieUrl
    /\ loading' = FALSE
    /\ fud' = FudIdle
    /\ UNCHANGED <<nonStatsVars, statistics, fetchesLeft, attendedEvents,
                   matchingImages, showSignInModal>>

\* a call of the signed-in branch throws: the catch
FetchUserDataThrows ==
    /\ fud.pc \in {"import", "statistics", "events", "defaultSelfie"}
    /\ fud.userEmail # None
    /\ loading' = FALSE
    /\ fud' = FudIdle
    /\ UNCHANGED <<nonStatsVars, statistics, fetchesLeft, selfieUrl,
                   attendedEvents, matchingImages, showSignInModal>>

NextFetch ==
    \/ fetchUserData
    \/ FetchSignedOut
    \/ FetchImagesReturn
    \/ FetchStatisticsReturn
    \/ FetchEventsReturn
    \/ FetchDefaultSelfieReturn
    \/ FetchUserDataThrows

\* fetchUserData has run for the session of localStorage and does not run
\* in a run
StatsIdle ==
    /\ statistics = IF localStorage.userEmail = None THEN NoStatistics
                    ELSE getAttendeeStatistics(attendeeTable)
    /\ loading = FALSE
    /\ fud = FudIdle
    /\ fetchesLeft = 0

(***************************************************************************)
(* Initial states                                                          *)
(***************************************************************************)
vars == <<worldVars, dashVars>>

\* no organizer dashboard has done anything yet
OrganizerPagesIdle ==
    /\ coverObjects = {}
    /\ s3Objects = {}
    /\ events = [o \in Orgs |-> <<>>]
    /\ deleteConfirmation = [o \in Orgs |-> NoConfirmation]
    /\ isLoading = [o \in Orgs |-> FALSE]
    /\ alertMessage = [o \in Orgs |-> None]
    /\ navigatedTo = [o \in Orgs |-> <<>>]
    /\ cr = [o \in Orgs |-> CrIdle]
    /\ nextSerial = 3
    /\ lastDelete = [by |-> None, removed |-> {}]

InitOrganizers ==
    /\ usersTable = [o \in Orgs |-> NoUser]
    /\ OrganizerPagesIdle

\* the navbar shows the session of localStorage and takes no step in a run
NavbarIdle ==
    /\ isLoggedIn = (localStorage.userEmail # None)
    /\ userProfile = localStorage.userProfile
    /\ contextUserEmail = localStorage.userEmail
    /\ userRole = None
    /\ navType = None
    /\ showSignInError = None
    /\ navbarNavigatedTo = None
    /\ sgn = SgnIdle
    /\ signInsLeft = 0
    /\ logoutsLeft = 0

\* the upload page has an empty pending batch
InitUploadPage ==
    /\ images = <<>>
    /\ imagePreviews = {}
    /\ skippedAlert = FALSE
    /\ lastFiles = <<>>
    /\ imagesBefore = <<>>
    /\ uploadImageIsUploading = FALSE
    /\ uploadSuccess = FALSE
    /\ uploadProgress = NoProgress
    /\ uploadedUrls = <<>>
    /\ showQRModal = FALSE
    /\ uploadImageAlert = NoAlert
    /\ hu = HuIdle

\* the pages that take no step in a run
OrganizersIdle == InitOrganizers /\ createsLeft = 0 /\ deletesLeft = 0
UploadPageIdle ==
    InitUploadPage /\ changesLeft = 0 /\ selectedEvent = <<>> /\ uploadsLeft = 0
\* the camera of a dashboard that is mounted: never opened, or open with
\* its stream attached to the video element
CameraClosed ==
    /\ mounted = TRUE
    /\ showCameraModal = FALSE /\ isCameraActive = FALSE
    /\ stream = 0 /\ videoRef = FALSE /\ srcObject = 0
    /\ liveTracks = {}
    /\ cam = CamIdle /\ cap = CapIdle
CameraOpen ==
    /\ mounted = TRUE
    /\ showCameraModal = TRUE /\ isCameraActive = TRUE
    /\ stream = 1 /\ videoRef = TRUE /\ srcObject = 1
    /\ liveTracks = {1}
    /\ cam = CamIdle /\ cap = CapIdle
\* no selfie File is held and handleUploadAndCompare is not pressed
CompareIdle == selfieFile = FALSE /\ uac = UacIdle /\ comparesLeft = 0
SelfieIdle ==
    /\ upl = UplIdle /\ selfiesLeft = 0 /\ CameraClosed /\ camerasLeft = 0
    /\ CompareIdle
DashboardIdle ==
    /\ attendeeTable = EmptyTable
    /\ unsignedTable = EmptyTable
    /\ localStorage = Session(None, None)
    /\ eventDetails = NoEvent
    /\ selfieUrl = NoUrl
    /\ attendedEvents = <<>>
    /\ matchingImages = <<>>
    /\ processingStatus = None
    /\ isUploading = FALSE
    /\ error = None
    /\ successMessage = None
    /\ showSignInModal = FALSE
    /\ statusTimer = 0
    /\ sub = SubIdle /\ submitsLeft = 0
    /\ url = UrlIdle /\ urlLeft = 0
    /\ s3ImageCounts = {0}
    /\ gateway = {}

(***************************************************************************)
(* SpecMatch: the matching workflow of form submissions on small listings  *)
(***************************************************************************)
InitMatch ==
    /\ InitDashboard
    /\ s3ImageCounts = 0..MaxImages
    /\ gateway = Responses
    /\ submitsLeft = MaxSubmits
    /\ urlLeft = 0
    /\ OrganizersIdle /\ UploadPageIdle /\ SelfieIdle
    /\ NavbarIdle /\ StatsIdle

NextMatch == NextSubmitLookup \/ NextCompare

SpecMatch == InitMatch /\ [][NextMatch]_vars

(***************************************************************************)
(* SpecBatch: one submission on listings of more than one batch            *)
(***************************************************************************)
InitBatch ==
    /\ eventsTable = {EventRec(IdGenerated, "org@mail", "org@mail", 1)}
    /\ attendeeTable =
           [EmptyTable EXCEPT ![DefaultId] = AttendeeRec(DefaultId, SelfieA, <<>>)]
    /\ unsignedTable = EmptyTable
    /\ localStorage = Session(UserU, None)
    /\ eventDetails = NoEvent
    /\ selfieUrl = SelfieA
    /\ attendedEvents = <<>>
    /\ matchingImages = <<>>
    /\ processingStatus = None
    /\ isUploading = FALSE
    /\ error = None
    /\ successMessage = None
    /\ showSignInModal = FALSE
    /\ statusTimer = 0
    /\ sub = SubIdle /\ submitsLeft = 1
    /\ url = UrlIdle /\ urlLeft = 0
    /\ \/ /\ s3ImageCounts = batchSize..(batchSize + Extra)
          /\ gateway = {Response(FALSE, <<>>), Response(TRUE, <<(<<85>>)>>)}
       \/ /\ s3ImageCounts = {2 * batchSize + Extra}
          /\ gateway = {Response(TRUE, <<(<<85>>)>>)}
    /\ OrganizersIdle /\ UploadPageIdle /\ SelfieIdle
    /\ NavbarIdle /\ StatsIdle

NextBatch ==
    \/ Submit(IdGenerated)
    \/ SubmitLookupThrows
    \/ SubmitFound
    \/ SubmitNoRecord
    \/ SubmitUseSelfie
    \/ ListThrows
    \/ ListReturns
    \/ CompareReturns
    \/ BatchJoinPause
    \/ PauseEnds
    \/ BatchJoinNoMatches
    \/ BatchJoinMatches
    \/ StoreReturns

SpecBatch == InitBatch /\ [][NextBatch]_vars

(***************************************************************************)
(* SpecPersist: one submission that may end at every point of the          *)
(* comparison run, on a listing of two batches or an empty one             *)
(***************************************************************************)
InitPersist ==
    /\ eventsTable = {EventRec(IdGenerated, "org@mail", "org@mail", 1)}
    /\ \E d \in {SelfieA, SelfieForeign} :
          attendeeTable =
              [EmptyTable EXCEPT ![DefaultId] = AttendeeRec(DefaultId, d, <<>>)]
    /\ unsignedTable = EmptyTable
    /\ localStorage = Session(UserU, None)
    /\ eventDetails = NoEvent
    /\ selfieUrl \in {NoUrl, attendeeTable[DefaultId].selfieURL}
    /\ attendedEvents = <<>>
    /\ matchingImages = <<>>
    /\ processingStatus = None
    /\ isUploading = FALSE
    /\ error = None
    /\ successMessage = None
    /\ showSignInModal = FALSE
    /\ statusTimer = 0
    /\ sub = SubIdle /\ submitsLeft = 1
    /\ url = UrlIdle /\ urlLeft = 0
    /\ s3ImageCounts = {0, batchSize + Extra}
    /\ gateway = {Response(FALSE, <<>>), Response(TRUE, <<(<<85>>)>>)}
    /\ OrganizersIdle /\ UploadPageIdle /\ SelfieIdle
    /\ NavbarIdle /\ StatsIdle

NextPersist ==
    \/ NextBatch
    \/ SubmitSelfiePathUnknown
    \/ ListEmpty
    \/ ListNoImages

SpecPersist == InitPersist /\ [][NextPersist]_vars

(***************************************************************************)
(* SpecDash: a form submission and a URL lookup on one dashboard           *)
(***************************************************************************)
InitDash ==
    /\ InitDashboard
    /\ s3ImageCounts = {0, 1}
    /\ gateway = {Response(FALSE, <<>>), Response(TRUE, <<(<<85>>)>>)}
    /\ submitsLeft = MaxSubmits
    /\ urlLeft = MaxUrlLookups
    /\ OrganizersIdle /\ UploadPageIdle /\ SelfieIdle
    /\ NavbarIdle /\ StatsIdle

NextDash == NextSubmitLookup \/ NextCompare \/ NextUrl

SpecDash == InitDash /\ [][NextDash]_vars

(***************************************************************************)
(* SpecCreate: two organizers creating events at the same time             *)
(* SpecDelete: two organizers deleting events                              *)
(***************************************************************************)
\* the events of earlier years: one created by this dashboard for a, one
\* whose owner attributes name different users
LegacyOwn == EventRec(generateSixDigitId(0), "a@mail", "a@mail", 1)
LegacyShared == EventRec(IdZeroLed, "a@mail", "b@mail", 2)

InitCreate ==
    /\ eventsTable \in SUBSET {LegacyOwn, LegacyShared}
    /\ InitOrganizers
    /\ createsLeft = MaxCreates
    /\ deletesLeft = 0
    /\ DashboardIdle /\ UploadPageIdle /\ SelfieIdle
    /\ NavbarIdle /\ StatsIdle

\* the steps of handleCreateEvent on the dashboard of o
NextCreateOf(o) ==
    \/ CreateInvalid(o)
    \/ CreateStarts(o)
    \/ GenCheckFree(o)
    \/ GenCheckThrows(o)
    \/ GenCheckCollides(o)
    \/ CoverUploadFails(o)
    \/ CoverUploaded(o)
    \/ GetUserReturns(o)
    \/ StoreUserReturns(o)
    \/ StoreEventFails(o)
    \/ StoreEventReturns(o)
    \/ CreateDone(o)

NextCreate == \E o \in Orgs : NextCreateOf(o)

SpecCreate == InitCreate /\ [][NextCreate]_vars

InitDelete ==
    /\ eventsTable \in SUBSET {LegacyOwn, LegacyShared}
    /\ InitOrganizers
    /\ createsLeft = 1
    /\ deletesLeft = MaxDeletes
    /\ DashboardIdle /\ UploadPageIdle /\ SelfieIdle
    /\ NavbarIdle /\ StatsIdle

NextDelete ==
    \E o \in Orgs :
        \/ NextCreateOf(o)
        \/ LoadEvents(o)
        \/ \E k \in 1..Len(events[o]) : DeleteButton(o, k)
        \/ ConfirmDeleteSucceeds(o)
        \/ ConfirmDeleteFails(o)
        \/ CancelDelete(o)

SpecDelete == InitDelete /\ [][NextDelete]_vars

(***************************************************************************)
(* SpecLoad: the organizers' lists are loaded from directories in which    *)
(* events share owners and, after a collision of generated ids, ids        *)
(***************************************************************************)
\* an event of a listed only by its userEmail, by its organizerId, by its
\* userId, and a second event under the id of LegacyOwn
OwnedByEmail ==
    [EventRec(IdShort, "a@mail", "b@mail", 3) EXCEPT !.userId = "b@mail"]
OwnedByUserId ==
    [EventRec(<<"7">>, "b@mail", "b@mail", 4) EXCEPT !.userId = "a@mail"]
OwnedByOrganizer ==
    [EventRec(<<"8">>, "b@mail", "a@mail", 5) EXCEPT !.userId = "b@mail"]
Collided == EventRec(generateSixDigitId(0), "a@mail", "a@mail", 6)

InitLoad ==
    /\ eventsTable \in SUBSET {LegacyOwn, LegacyShared, OwnedByEmail,
                               OwnedByUserId, OwnedByOrganizer, Collided}
    /\ InitOrganizers
    /\ createsLeft = 0
    /\ deletesLeft = 0
    /\ DashboardIdle /\ UploadPageIdle /\ SelfieIdle
    /\ NavbarIdle /\ StatsIdle

NextLoad == \E o \in Orgs : LoadEvents(o)

SpecLoad == InitLoad /\ [][NextLoad]_vars

(***************************************************************************)
(* SpecSelfie: the signed-in user replaces the selfie                      *)
(***************************************************************************)
SelfieTables ==
    {[e \in AttendeeIds |->
        IF e \in present
        THEN AttendeeRec(e, IF e = IdShort THEN SelfieB ELSE SelfieA, <<>>)
        ELSE NoRecord] : present \in SUBSET AttendeeIds}

InitSelfie ==
    /\ eventsTable \in Directories
    /\ attendeeTable \in SelfieTables
    /\ unsignedTable = EmptyTable
    /\ localStorage = Session(UserU, None)
    /\ eventDetails = NoEvent
    /\ selfieUrl = attendeeTable[DefaultId].selfieURL
    /\ attendedEvents = <<>>
    /\ matchingImages = <<>>
    /\ processingStatus = None
    /\ isUploading = FALSE
    /\ error = None
    /\ successMessage = None
    /\ showSignInModal = FALSE
    /\ statusTimer = 0
    /\ sub = SubIdle /\ submitsLeft = 0
    /\ url = UrlIdle /\ urlLeft = 0
    /\ s3ImageCounts = {0}
    /\ gateway = {}
    /\ upl = UplIdle /\ selfiesLeft = MaxSelfies
    /\ CameraOpen /\ camerasLeft = 0
    /\ CompareIdle
    /\ OrganizersIdle /\ UploadPageIdle
    /\ NavbarIdle /\ StatsIdle

NextSelfie ==
    \/ captureImage
    \/ UploadSelfieStarts
    \/ UploadSelfieThrows
    \/ UploadSelfieStored
    \/ GetAllReturns
    \/ UpdateSelfieReturns
    \/ UpdateSelfieFails
    \/ StoreDefaultReturns
    \/ StoreDefaultFails

SpecSelfie == InitSelfie /\ [][NextSelfie]_vars

(***************************************************************************)
(* SpecCamera: the signed-in user opens the camera, captures, closes the   *)
(* modal, hides the page and leaves the dashboard, in every order          *)
(***************************************************************************)
InitCamera ==
    /\ eventsTable = {EventRec(IdGenerated, "org@mail", "org@mail", 1)}
    /\ attendeeTable =
           [EmptyTable EXCEPT ![DefaultId] = AttendeeRec(DefaultId, SelfieA, <<>>)]
    /\ unsignedTable = EmptyTable
    /\ localStorage = Session(UserU, None)
    /\ eventDetails = NoEvent
    /\ selfieUrl = SelfieA
    /\ attendedEvents = <<>>
    /\ matchingImages = <<>>
    /\ processingStatus = None
    /\ isUploading = FALSE
    /\ error = None
    /\ successMessage = None
    /\ showSignInModal = FALSE
    /\ statusTimer = 0
    /\ sub = SubIdle /\ submitsLeft = 0
    /\ url = UrlIdle /\ urlLeft = 0
    /\ s3ImageCounts = {0}
    /\ gateway = {}
    /\ upl = UplIdle /\ selfiesLeft = MaxSelfies
    /\ CameraClosed /\ camerasLeft = MaxCameras
    /\ CompareIdle
    /\ OrganizersIdle /\ UploadPageIdle
    /\ NavbarIdle /\ StatsIdle

NextCamera ==
    \/ handleUpdateSelfie
    \/ StartCameraThrows
    \/ StartCameraGranted
    \/ VideoAttached
    \/ CloseCameraModal
    \/ CaptureThrows
    \/ PageHidden
    \/ Unmount
    \/ NextSelfie

SpecCamera == InitCamera /\ [][NextCamera]_vars

(***************************************************************************)
(* SpecGate: the handlers of one attendee dashboard, signed in or not:     *)
(* a form submission, a URL lookup and a selfie update                     *)
(***************************************************************************)
InitGate ==
    /\ eventsTable = {EventRec(IdGenerated, "org@mail", "org@mail", 1)}
    /\ attendeeTable \in AttendeeTables
    /\ unsignedTable = EmptyTable
    /\ localStorage \in {Session(None, None), Session(UserU, None)}
    /\ eventDetails = NoEvent
    /\ selfieUrl \in {NoUrl, attendeeTable[DefaultId].selfieURL}
    /\ localStorage.userEmail = None => selfieUrl = NoUrl
    /\ attendedEvents = <<>>
    /\ matchingImages = <<>>
    /\ processingStatus = None
    /\ isUploading = FALSE
    /\ error = None
    /\ successMessage = None
    /\ showSignInModal = FALSE
    /\ statusTimer = 0
    /\ sub = SubIdle
    /\ url = UrlIdle
    /\ s3ImageCounts = {0, 1}
    /\ gateway = {Response(TRUE, <<>>), Response(TRUE, <<(<<85>>)>>)}
    /\ submitsLeft = 1
    /\ urlLeft = 1
    /\ upl = UplIdle /\ selfiesLeft = MaxSelfies
    /\ CameraOpen /\ camerasLeft = 0
    /\ CompareIdle
    /\ OrganizersIdle /\ UploadPageIdle
    /\ NavbarIdle /\ StatsIdle

\* the codes typed or carried by the URL: blank, of no event, of the event
GateCodes == {<<" ">>, <<"7">>, IdGenerated}

NextGate ==
    \/ \E code \in GateCodes : SubmitBlank(code)
    \/ \E code \in GateCodes : Submit(code)
    \/ SubmitLookupThrows
    \/ SubmitLookupMiss
    \/ SubmitNotFound
    \/ SubmitAuthRequired
    \/ SubmitFound
    \/ SubmitCached
    \/ StatusTimerFires
    \/ SubmitNoRecord
    \/ SubmitNoSelfie
    \/ SubmitSelfiePathUnknown
    \/ SubmitUseSelfie
    \/ NextCompare
    \/ \E code \in GateCodes \ {<<" ">>} : UrlLookupStarts(code)
    \/ UrlLookupThrows
    \/ UrlLookupMiss
    \/ UrlNotFound
    \/ UrlAuthRequired
    \/ UrlFound
    \/ UrlCached
    \/ UrlNoRecord
    \/ NextSelfie

SpecGate == InitGate /\ [][NextGate]_vars

(***************************************************************************)
(* SpecUpload: files are picked on the upload page                         *)
(***************************************************************************)
InitUpload ==
    /\ eventsTable = {}
    /\ InitUploadPage
    /\ changesLeft = MaxChanges
    /\ selectedEvent = <<>> /\ uploadsLeft = 0
    /\ DashboardIdle /\ OrganizersIdle /\ SelfieIdle
    /\ NavbarIdle /\ StatsIdle

NextUpload == \E files \in Selections : handleImageChange(files)

SpecUpload == InitUpload /\ [][NextUpload]_vars

(***************************************************************************)
(* SpecBulk: a batch is picked and uploaded                                *)
(***************************************************************************)
InitBulk ==
    /\ eventsTable = {EventRec(IdGenerated, "org@mail", "org@mail", 1)}
    /\ InitUploadPage
    /\ changesLeft = 1
    /\ selectedEvent \in {<<>>, IdGenerated}
    /\ uploadsLeft = MaxUploads
    /\ DashboardIdle /\ OrganizersIdle /\ SelfieIdle
    /\ NavbarIdle /\ StatsIdle

NextBulk ==
    \/ \E files \in Selections : handleImageChange(files)
    \/ HandleUploadRejected
    \/ HandleUploadStarts
    \/ \E k \in 1..MaxSelect : UploadToS3Returns(k)
    \/ \E k \in 1..MaxSelect : UploadToS3Throws(k)

SpecBulk == InitBulk /\ [][NextBulk]_vars

(***************************************************************************)
(* SpecSession: a visitor signs in and out at the navbar, with or without  *)
(* a pending action and a pending redirect URL left by the page that asked *)
(* for the sign-in, and uploads a batch on the upload page                 *)
(***************************************************************************)
PendingRedirect == "/attendee-dashboard?eventId=100000"

\* the record of a@mail in the Users table: none, an organizer with an
\* event, an attendee
SessionUsers ==
    {NoUser, UserRec(TRUE, "organizer", TRUE, <<IdGenerated>>, EarlierDate),
     UserRec(TRUE, "attendee", FALSE, <<>>, EarlierDate)}

InitSession ==
    /\ eventsTable = {EventRec(IdGenerated, "a@mail", "a@mail", 1)}
    /\ \E u \in SessionUsers :
          usersTable = [o \in Orgs |-> IF o = "a@mail" THEN u ELSE NoUser]
    /\ OrganizerPagesIdle /\ createsLeft = 0 /\ deletesLeft = 0
    /\ attendeeTable = EmptyTable
    /\ unsignedTable = EmptyTable
    /\ \E pendingAction \in {None, "createEvent", "getPhotos"},
          pendingRedirectUrl \in {None, PendingRedirect} :
          localStorage = [Session(None, pendingAction) EXCEPT
                             !.pendingRedirectUrl = pendingRedirectUrl]
    /\ eventDetails = NoEvent
    /\ selfieUrl = NoUrl
    /\ attendedEvents = <<>>
    /\ matchingImages = <<>>
    /\ processingStatus = None
    /\ isUploading = FALSE
    /\ error = None
    /\ successMessage = None
    /\ showSignInModal = TRUE
    /\ statusTimer = 0
    /\ sub = SubIdle /\ submitsLeft = 0
    /\ url = UrlIdle /\ urlLeft = 0
    /\ s3ImageCounts = {0}
    /\ gateway = {}
    /\ SelfieIdle
    /\ InitUploadPage
    /\ changesLeft = 1
    /\ selectedEvent = IdGenerated
    /\ uploadsLeft = MaxUploads
    /\ isLoggedIn = FALSE
    /\ userProfile = None
    /\ contextUserEmail = None
    /\ userRole = None
    /\ navType = None
    /\ showSignInError = None
    /\ navbarNavigatedTo = None
    /\ sgn = SgnIdle
    /\ signInsLeft = MaxSignIns
    /\ logoutsLeft = MaxLogouts
    /\ StatsIdle

NextSession ==
    \/ SignInFails
    \/ SignInStarts("a@mail")
    \/ SignInStored
    \/ handleLogout
    \/ NextBulk

SpecSession == InitSession /\ [][NextSession]_vars

(***************************************************************************)
(* Properties                                                              *)
(***************************************************************************)
\* an invocation that has returned
Returned(h) == h.pc = "idle" /\ h.outcome # None

\* the comparisons of the submission are over: the last batch is joined
Compared(s) == s.imageKeys # <<>> /\ s.pc \in {"store", "idle"}

(***************************************************************************)
(* C1 (SpecCreate)                                                         *)
(***************************************************************************)
\* C1: no two events that exist in the Event Directory at the same time share
\* an identifier, whatever the creations and however they interleave
C1_EventIdsUnique == \A e, f \in eventsTable : e.id = f.id => e = f

(***************************************************************************)
(* C2 (SpecDash)                                                           *)
(***************************************************************************)
FreshWork == {"getUserDefaultSelfie", "ListObjectsV2", "CompareFaces",
              "storeAttendeeImageData", "stored", "storeFailed"}

\* the invocation h took the cached path: the record's images are on the
\* page and neither a listing, a comparison nor a store write was issued
ServedFromCache(h) ==
    /\ h.outcome = "Done"
    /\ h.calls \cap FreshWork = {}
    /\ h.calls = {"getEventById", "getAttendeeImagesByUserAndEvent"}
    /\ attendeeTable[h.event.id] # NoRecord
    /\ Range(attendeeTable[h.event.id].matchedImages) \subseteq Range(matchingImages)
    /\ h.event.id \in Range(attendedEvents)

\* h leaves CheckExistingMatch while a record of (user, event) exists: by
\* the cached path
LeavesCheckCached(h, hNext) ==
    (h.pc = "check" /\ hNext.pc # "check"
        /\ attendeeTable[h.event.id] # NoRecord) => hNext.cached

\* C2: when a record of (user, event) exists as a form submission or a URL
\* lookup reaches CheckExistingMatch, the invocation shows the record's
\* matched images and issues no listing, no comparison and no store write
C2_CachedRecordServedWithoutWork ==
    /\ [](sub.cached => ServedFromCache(sub))
    /\ [](url.cached => ServedFromCache(url))
    /\ [][LeavesCheckCached(sub, sub') /\ LeavesCheckCached(url, url')]_vars

C2_Witness ==
    /\ sub.cached /\ url.cached
    /\ Returned(sub) /\ Returned(url)
    /\ matchingImages # <<>>

(***************************************************************************)
(* C3 (SpecMatch)                                                          *)
(***************************************************************************)
\* the greatest Similarity of a response, a FaceMatch without one counting 0;
\* -1 when the call failed or found no face
BestScore(r) ==
    IF ~r.ok \/ r.FaceMatches = <<>> THEN -1
    ELSE CHOOSE x \in {OrZero(m) : m \in Range(r.FaceMatches)} :
             \A m \in Range(r.FaceMatches) : x >= OrZero(m)

\* the candidates of s whose best score is at least 70
Survivors(s) ==
    {k \in 1..Len(s.imageKeys) : BestScore(s.responses[k]) >= 70}

\* the list holds exactly the survivors, each once with its best score
HoldsSurvivors(s) ==
    /\ Len(s.results) = Cardinality(Survivors(s))
    /\ \A k \in Survivors(s) :
          \E p \in 1..Len(s.results) :
              s.results[p] = [url |-> ImageUrl(s.imageKeys[k]),
                              similarity |-> BestScore(s.responses[k])]

\* C3 as amended: the final match list holds exactly the candidates whose
\* best score is at least 70, and no element's score is smaller than its
\* successor's (equal scores stay next to each other)
C3_SurvivorsSortedNonIncreasing ==
    Compared(sub) =>
        /\ HoldsSurvivors(sub)
        /\ \A p \in 1..(Len(sub.results) - 1) :
              sub.results[p].similarity >= sub.results[p + 1].similarity

\* C3 as stated: the final match list holds exactly the candidates whose best
\* score is at least 70 and is sorted strictly descending by score
C3_SurvivorsSortedStrictly ==
    Compared(sub) =>
        /\ HoldsSurvivors(sub)
        /\ \A p \in 1..(Len(sub.results) - 1) :
              sub.results[p].similarity > sub.results[p + 1].similarity

C3_Witness ==
    /\ Compared(sub)
    /\ Len(sub.results) = 2
    /\ sub.results[1].similarity = sub.results[2].similarity

(***************************************************************************)
(* C4 (SpecSelfie)                                                         *)
(***************************************************************************)
\* C4: once uploadSelfie has reported success for the new selfie URL, every
\* record stored for the user, the default one included, holds that URL
C4_SelfiePropagated ==
    (upl.outcome = "Done" /\ successMessage = MsgSelfieUpdated) =>
        \A r \in getAllAttendeeImagesByUser(attendeeTable) :
            r.selfieURL = upl.selfieUrl

SelfWord == <<"s", "e", "l", "f">>

\* the name, in any case, has the letters s-e-l-f in a row (as selfie has)
IndicatesSelfie(name) ==
    \E p \in 1..(Len(name) - 3) :
        \A q \in 1..4 : toLowerCase(<<name[p + q - 1]>>) = <<SelfWord[q]>>

IsImageType(type) ==
    Len(type) >= 6 /\ [q \in 1..6 |-> type[q]] = <<"i", "m", "a", "g", "e", "/">>

\* an image of at most 50MB whose name does not indicate a selfie
Wanted(file) ==
    /\ IsImageType(file.type)
    /\ file.size <= 50 * 1024 * 1024
    /\ ~IndicatesSelfie(file.name)

\* C6: handleImageChange adds to the pending batch exactly the selected files
\* that are images of at most 50MB not named like a selfie, in their order
C6_ExactlyWantedFilesAdded ==
    /\ Len(images) >= Len(imagesBefore)
    /\ SubSeq(images, 1, Len(imagesBefore)) = imagesBefore
    /\ SubSeq(images, Len(imagesBefore) + 1, Len(images))
           = SelectSeq(lastFiles, Wanted)
    /\ skippedAlert <=> (\E k \in 1..Len(lastFiles) : ~Wanted(lastFiles[k]))

C6_Witness ==
    /\ Len(lastFiles) >= 2
    /\ \E k \in 1..Len(lastFiles) :
          IndicatesSelfie(lastFiles[k].name) /\ lastFiles[k].size <= 1024
    /\ Len(images) > Len(imagesBefore)
    /\ skippedAlert

(***************************************************************************)
(* C7 (SpecMatch)                                                          *)
(***************************************************************************)
\* the submission of a signed-in user resolved to an event, found no record
\* of (user, event), and the user has a default selfie
DefaultSelfieCase(s) ==
    /\ s.userEmail # None
    /\ s.event # NoEvent
    /\ ~s.cached
    /\ "getUserDefaultSelfie" \in s.calls
    /\ getUserDefaultSelfie # NoUrl

\* the record of the event was written with the non-empty match list
RecordWritten(s) ==
    /\ s.outcome = "Done"
    /\ "stored" \in s.calls
    /\ s.sortedMatches # <<>>
    /\ attendeeTable[s.event.id] =
           AttendeeRec(s.event.id, s.selfie, Urls(s.sortedMatches))

\* the comparisons ran and no candidate survived
NoMatchesError(s) ==
    /\ s.outcome = "Error"
    /\ error = MsgNoMatches
    /\ Compared(s) /\ s.results = <<>>

\* the matches are shown but the write failed, which is only logged
ShownNotWritten(s) ==
    /\ s.outcome = "Done"
    /\ "storeFailed" \in s.calls
    /\ s.sortedMatches # <<>>
    /\ attendeeTable[s.event.id] = NoRecord

\* the comparison never ran: the listing failed or had no image, or the S3
\* path of the selfie could not be told
ComparisonNotRun(s) ==
    /\ s.outcome = "Error"
    /\ s.imageKeys = <<>>
    /\ error \in {MsgListFailed, MsgNoImages, MsgNoValidImages, MsgNoSelfiePath}

Stored(id) == \E e \in eventsTable : e.id = id

\* the code or one of its two variants is in the directory
Resolvable(c) ==
    \/ Stored(c)
    \/ Len(c) < 6 /\ Stored(PadStart(c, 6, "0"))
    \/ Len(c) = 6 /\ c[1] = "0" /\ Stored(StripLeadingZeros(c))

\* the lookup of h, while it runs and once it is over
LookupAsSpecified(h) ==
    /\ h.pc = "getPadded" => Len(h.code) < 6
    /\ h.pc = "getStripped" => Len(h.code) = 6 /\ h.code[1] = "0"
    /\ (Returned(h) /\ h.outcome # "Invalid" /\ ~h.threw) =>
          /\ h.event # NoEvent <=> Resolvable(h.code)
          /\ h.event # NoEvent => h.event.id = h.tried[Len(h.tried)]
          /\ h.event = NoEvent =>
                /\ h.outcome = "NotFound"
                /\ h.calls = {"getEventById"}

\* C8: a submitted code resolves to an event if and only if getEventById
\* finds one under the code, under the code padded to six characters (tried
\* only for a shorter code) or under the code without its leading zeros
\* (tried only for a code of six characters that starts with 0); otherwise
\* the flow ends as not found, with no further call
C8_LookupResolvesIffVariantStored ==
    LookupAsSpecified(sub) /\ LookupAsSpecified(url)

C8_Witness ==
    /\ Returned(sub) /\ sub.code = IdZeroLed /\ sub.event.id = IdShort
    /\ Returned(url) /\ url.outcome = "NotFound" /\ Len(url.tried) = 2

(***************************************************************************)
(* C9 (SpecBatch)                                                          *)
(***************************************************************************)
\* the number of the batch the k-th key belongs to
BatchOf(k) == (k - 1) \div 10

\* C9: at most 10 comparisons are in flight; no comparison of a batch is
\* issued before every comparison of the earlier batches has completed; the
\* batches and pauses alternate, and the run ends on a batch, not a pause
C9_BatchesOfTenJoinedAndPaused ==
    /\ Cardinality(sub.inflight) <= 10
    /\ \A k \in sub.inflight :
          \A j \in 1..Len(sub.imageKeys) :
              BatchOf(j) < BatchOf(k) => j \in DOMAIN sub.responses
    /\ \A k \in DOMAIN sub.responses \cup sub.inflight :
          BatchOf(k) < (Len(sub.trace) + 1) \div 2
    /\ \A p \in 1..Len(sub.trace) :
          sub.trace[p] = IF p % 2 = 1 THEN "batch" ELSE "pause"
    /\ Compared(sub) =>
          /\ DOMAIN sub.responses = 1..Len(sub.imageKeys)
          /\ Len(sub.trace) = 2 * ((Len(sub.imageKeys) + 9) \div 10) - 1

C9_Witness ==
    /\ Compared(sub)
    /\ Len(sub.trace) = 5
    /\ sub.outcome = "Done"

(***************************************************************************)
(* C10 (SpecBatch)                                                         *)
(***************************************************************************)
\* the response with a failure read as "no face matched"
AsNoMatch(r) == IF r.ok THEN r ELSE Response(TRUE, <<>>)

\* the match list of s had every failed comparison returned no face match
ListWithoutFailures(s) ==
    SortBySimilarity(
        KeptOf([k \in 1..Len(s.imageKeys) |->
                   CompareResult(s.imageKeys[k], AsNoMatch(s.responses[k]))],
               1, Len(s.imageKeys)))

\* C10: a failed comparison counts as no match for its candidate only: every
\* candidate is still compared, the workflow errs only when nothing matched,
\* and the final list is the one of a run where the failed calls returned no
\* face match
C10_FailureIsNoMatchForOneCandidate ==
    /\ sub.pc = "batch" =>
          \A k \in 1..Len(sub.imageKeys) :
              BatchOf(k) <= BatchOf(sub.i + 1) =>
                  k \in sub.inflight \cup DOMAIN sub.responses
    /\ Compared(sub) =>
          /\ DOMAIN sub.responses = 1..Len(sub.imageKeys)
          /\ sub.results = ListWithoutFailures(sub)
          /\ sub.outcome = "Error" =>
                ListWithoutFailures(sub) = <<>> /\ error = MsgNoMatches

C10_Witness ==
    /\ Compared(sub) /\ sub.outcome = "Done"
    /\ Len(sub.trace) = 3
    /\ \E k \in 1..batchSize : ~sub.responses[k].ok
    /\ \E k \in 1..batchSize : sub.responses[k].ok
    /\ sub.results # <<>>

(***************************************************************************)
(* C11 (SpecPersist)                                                       *)
(***************************************************************************)
\* the step writes the record of the submission's event: it is the return of
\* the one storeAttendeeImageData call, made when every key of the listing
\* has been compared, and the record carries the complete sorted match list
WritesCompleteRecord ==
    /\ sub.pc = "store" /\ sub'.pc = "idle"
    /\ "stored" \notin sub.calls /\ "stored" \in sub'.calls
    /\ sub.inflight = {}
    /\ DOMAIN sub.responses = 1..Len(sub.imageKeys)
    /\ Len(sub.trace) = 2 * ((Len(sub.imageKeys) + 9) \div 10) - 1
    /\ attendeeTable' =
           [attendeeTable EXCEPT ![sub.event.id] =
               AttendeeRec(sub.event.id, sub.selfie,
                           Urls(ListWithoutFailures(sub)))]

\* C11: the record is written at most once in an invocation, only after
\* every batch has been compared, and with the complete sorted match list;
\* an invocation that ends in Error has written no record
C11_RecordWrittenOnceAfterAllBatches ==
    /\ [][attendeeTable' # attendeeTable => WritesCompleteRecord]_vars
    /\ []("stored" \in sub.calls => sub.outcome = "Done")
    /\ [](sub.outcome = "Error" =>
             /\ sub.calls \cap {"stored", "storeFailed"} = {}
             /\ \A e \in MatchEventIds : attendeeTable[e] = NoRecord)

C11_Witness ==
    /\ sub.outcome = "Done" /\ "stored" \in sub.calls
    /\ Len(sub.trace) = 3
    /\ Len(attendeeTable[sub.event.id].matchedImages) >= 2
    /\ \E k \in 1..Len(sub.imageKeys) : ~sub.responses[k].ok

(***************************************************************************)
(* C12 (SpecPersist)                                                       *)
(***************************************************************************)
\* C12: when the write of the record fails, the matches stay on the page,
\* the event stays in the attended events, no error is shown and the
\* invocation ends in Done with the success message
C12_PersistFailsSoft ==
    "storeFailed" \in sub.calls =>
        /\ sub.outcome = "Done"
        /\ successMessage = MsgFoundNew
        /\ error = None
        /\ sub.sortedMatches # <<>>
        /\ matchingImages = Urls(sub.sortedMatches) \o sub.snapImages
        /\ sub.event.id \in Range(attendedEvents)
        /\ attendeeTable[sub.event.id] = NoRecord
        /\ ~isUploading

C12_Witness ==
    /\ "storeFailed" \in sub.calls
    /\ Len(matchingImages) >= 2
    /\ Len(sub.trace) = 3

(***************************************************************************)
(* C13 (SpecBulk)                                                          *)
(***************************************************************************)
\* handleUpload has returned and every upload it started has settled
UploadsSettled(h) == h.pc = "idle" /\ h.outcome \in {"Done", "Error"} /\ h.inflight = {}

\* C13: the failure of one file's upload does not keep the files that were
\* uploaded from being recorded as uploaded: once the uploads of a batch have
\* settled, the url of every uploaded file is in uploadedUrls
C13_UploadedFilesRecordedDespiteFailure ==
    UploadsSettled(hu) =>
        \A k \in hu.fulfilled : UrlsOf(hu)[k] \in Range(uploadedUrls)

(***************************************************************************)
(* C14 (SpecCreate)                                                        *)
(***************************************************************************)
\* the createdEvents list stored for o, empty when o has no record or no list
StoredCreatedEvents(table, o) ==
    IF table[o].exists /\ table[o].hasEvents THEN table[o].createdEvents
    ELSE <<>>

NoDuplicates(list) ==
    \A j, k \in 1..Len(list) : list[j] = list[k] => j = k

\* C14: a storeUserCredentials call with createdEvents that succeeds leaves
\* the user's createdEvents as the union of the list stored before and the
\* list supplied, without duplicates
C14_CreatedEventsMergedAsUnion ==
    [][\A o \in Orgs :
          (cr[o].pc = "storeUser" /\ cr'[o].pc = "storeEvent"
              /\ usersTable'[o] # usersTable[o]) =>
             /\ Range(StoredCreatedEvents(usersTable', o)) =
                    Range(StoredCreatedEvents(usersTable, o))
                    \cup Range(cr[o].eventIds)
             /\ NoDuplicates(StoredCreatedEvents(usersTable', o))]_vars

(***************************************************************************)
(* C15 (SpecCreate)                                                        *)
(***************************************************************************)
\* a string of six digits that does not start with 0
IsSixDigitId(id) ==
    /\ Len(id) = 6
    /\ \A k \in 1..6 : \E d \in 1..10 : DigitChar[d] = id[k]
    /\ id[1] # "0"

\* a step of o's generateUniqueEventId: it sends another lookup only after a
\* collision and while fewer than 10 were sent, and otherwise returns the id
\* it generated last, without failing
GeneratorStep(o) ==
    (cr[o].pc = "genCheck" /\ cr'[o] # cr[o]) =>
        /\ cr'[o].pc \in {"genCheck", "cover"}
        /\ IsSixDigitId(cr'[o].eventId)
        /\ cr'[o].pc = "genCheck" =>
              /\ cr[o].attempts < maxAttempts
              /\ cr'[o].attempts = cr[o].attempts + 1
              /\ cr'[o].collided = cr[o].collided + 1
        /\ cr[o].attempts = maxAttempts => cr'[o].pc = "cover"

\* C15: generateUniqueEventId always returns an id after at most 10
\* getEventById lookups; when every lookup found an event it returns the id
\* generated last, unchecked
C15_GeneratorReturnsWithinTenLookups ==
    /\ [](\A o \in Orgs :
             /\ cr[o].attempts \in 0..maxAttempts
             /\ cr[o].collided <= cr[o].attempts
             /\ cr[o].pc = "genCheck" => cr[o].attempts >= 1)
    /\ [][\A o \in Orgs : GeneratorStep(o)]_vars

C15_Witness ==
    \E o \in Orgs :
        /\ cr[o].pc = "cover"
        /\ cr[o].attempts = maxAttempts /\ cr[o].collided = maxAttempts
        /\ ~cr[o].checkedFree
        /\ \E e \in eventsTable : e.id = cr[o].eventId

(***************************************************************************)
(* C16 (SpecPersist)                                                       *)
(***************************************************************************)
\* C16: the matched-photo list of a record written by the matching workflow
\* holds no object reference twice, whatever the listing returned and
\* however the comparisons ended
C16_NoDuplicateMatchedImages ==
    /\ NoDuplicates(sub.imageKeys)
    /\ sub.pc = "store" => NoDuplicates(Urls(sub.sortedMatches))
    /\ "stored" \in sub.calls =>
          /\ attendeeTable[sub.event.id].matchedImages = Urls(sub.sortedMatches)
          /\ NoDuplicates(attendeeTable[sub.event.id].matchedImages)

C16_Witness ==
    /\ "stored" \in sub.calls
    /\ Len(attendeeTable[sub.event.id].matchedImages) = batchSize + Extra

(***************************************************************************)
(* C17 (SpecMatch)                                                         *)
(***************************************************************************)
\* the scores of the final list are all at least t
KeptAtLeast(s, t) ==
    \A p \in 1..Len(s.results) : s.results[p].similarity >= t

\* C17 as amended: the caller's acceptance threshold is distinct from the
\* threshold passed to the comparison service and less strict than it; the
\* caller keeps exactly the candidates with a score of at least 70, so no
\* candidate that meets the service's threshold of 80 is dropped
C17_AcceptanceBelowServiceThreshold ==
    /\ AcceptThreshold # SimilarityThreshold
    /\ AcceptThreshold < SimilarityThreshold
    /\ Compared(sub) =>
          /\ KeptAtLeast(sub, AcceptThreshold)
          /\ HoldsSurvivors(sub)
          /\ \A k \in 1..Len(sub.imageKeys) :
                BestScore(sub.responses[k]) >= SimilarityThreshold =>
                    ImageUrl(sub.imageKeys[k]) \in Range(Urls(sub.results))

\* C17 as stated: the acceptance threshold is distinct from the service
\* threshold and at least as strict, so every kept candidate meets the
\* service threshold
C17_AcceptanceAtLeastServiceThreshold ==
    /\ AcceptThreshold # SimilarityThreshold
    /\ AcceptThreshold >= SimilarityThreshold
    /\ Compared(sub) => KeptAtLeast(sub, SimilarityThreshold)

C17_Witness ==
    /\ Compared(sub)
    /\ Len(sub.results) = 2
    /\ sub.results[1].similarity >= SimilarityThreshold
    /\ sub.results[2].similarity = AcceptThreshold

(***************************************************************************)
(* C18 (SpecBulk)                                                          *)
(***************************************************************************)
\* C18: every object the application has written to the bucket, be it an
\* event cover, an event image, an event selfie or a user selfie, was
\* written with the ACL public-read
C18_ObjectsWrittenPublicRead ==
    \A object \in s3Objects : object.ACL = "public-read"

(***************************************************************************)
(* C19 (SpecLoad)                                                          *)
(***************************************************************************)
\* the events the three owner-attribute queries return for o
ReturnedByQueries(o) ==
    Range(getUserEvents(eventsTable, o))
    \cup Range(getEventsByOrganizerId(eventsTable, o))
    \cup Range(getEventsByUserId(eventsTable, o))

Ids(list) == [k \in 1..Len(list) |-> list[k].id]

\* loadEvents has set the list of o from the directory as it is now
Loaded(o) == events[o] # <<>> /\ events[o] = loadEvents(eventsTable, o)

\* what loadEvents gives for every combination: the list holds only events
\* the queries returned, an entry for the id of every event returned, and
\* every event of the userEmail query; it holds no id twice when the result
\* of the userEmail query holds no id twice
EveryIdListedOncePerQueryResult ==
    \A o \in Orgs :
        Loaded(o) =>
            /\ Range(events[o]) \subseteq ReturnedByQueries(o)
            /\ Range(Ids(events[o])) = {e.id : e \in ReturnedByQueries(o)}
            /\ Range(getUserEvents(eventsTable, o)) \subseteq Range(events[o])
            /\ NoDuplicates(Ids(getUserEvents(eventsTable, o))) =>
                   NoDuplicates(Ids(events[o]))

\* C19: the list holds every event returned by any of the three
\* queries and no two entries with the same id
C19_EveryEventListedNoIdTwice ==
    \A o \in Orgs :
        Loaded(o) =>
            /\ ReturnedByQueries(o) \subseteq Range(events[o])
            /\ NoDuplicates(Ids(events[o]))


(***************************************************************************)
(* C20 (SpecGate)                                                          *)
(***************************************************************************)
\* the requests that upload an object, compare faces or write to the
\* attendee table
GatedRequests == {"CompareFaces", "storeAttendeeImageData", "stored",
                  "storeFailed"}

\* the lookups of the form and of the URL parameter issue no such request
\* while no session email is present
LookupsGated ==
    localStorage.userEmail = None =>
        /\ sub.calls \cap GatedRequests = {}
        /\ url.calls \cap GatedRequests = {}

\* C20: while no session email is present no handler of the attendee
\* dashboard has an upload, a face comparison or a write to the attendee
\* table under way, and none has been made
C20_NoRequestsWithoutSession ==
    localStorage.userEmail = None =>
        /\ LookupsGated
        /\ upl.pc \notin {"upload", "update", "storeDefault"}
        /\ s3Objects = {}
        /\ unsignedTable = EmptyTable

(***************************************************************************)
(* C21 (SpecDash)                                                          *)
(***************************************************************************)
\* a lookup h has found the event without a session email and has stopped
\* before CheckExistingMatch
StoppedForSignIn(h) ==
    /\ h.outcome = "AuthRequired"
    /\ h.event # NoEvent
    /\ "getAttendeeImagesByUserAndEvent" \notin h.calls

\* C21: whenever a lookup, of the form or of the URL parameter, finds the
\* event while no session email is present, it stops before
\* CheckExistingMatch, the pending action getPhotos is recorded and the
\* sign-in modal is shown
C21_AuthRequiredKeepsIntent ==
    \A h \in {sub, url} :
        h.outcome = "AuthRequired" =>
            /\ StoppedForSignIn(h)
            /\ localStorage.pendingAction = "getPhotos"
            /\ showSignInModal

(***************************************************************************)
(* C22, C26, C30 (SpecSession)                                             *)
(***************************************************************************)
\* C22: the step that completes a handleSignIn resumes the pending action
\* of that sign-in: createEvent leads to the create-event view, getPhotos
\* to the stored redirect URL or else to the attendee dashboard, and
\* afterwards neither the pending action nor the pending redirect URL is
\* stored
C22_PendingActionResumedOnce ==
    [][(sgn.pc = "store" /\ sgn'.outcome = "Done"
            /\ sgn.pendingAction # None) =>
          /\ sgn.pendingAction = "createEvent" =>
                 navbarNavigatedTo' = RouteCreate
          /\ sgn.pendingAction = "getPhotos" =>
                 navbarNavigatedTo' =
                     IF localStorage.pendingRedirectUrl # None
                     THEN localStorage.pendingRedirectUrl ELSE RouteDashboard
          /\ localStorage'.pendingAction = None
          /\ localStorage'.pendingRedirectUrl = None]_vars

\* C26: after handleLogout no entry of the session is stored any more
\* (userEmail, userProfile, userMobile, googleToken, pendingAction,
\* pendingRedirectUrl, currentEventId) and the userEmail and userRole of the
\* UserContext are unset
C26_LogoutClearsSession ==
    [][logoutsLeft' < logoutsLeft =>
          /\ localStorage' = Session(None, None)
          /\ contextUserEmail' = None
          /\ userRole' = None]_vars

\* C30: a storeUserCredentials without createdEvents, as handleSignIn calls
\* it, leaves the createdEvents and the createdAt of an existing user as
\* they were
C30_PlainStoreKeepsEventsAndCreatedAt ==
    [][(sgn.pc = "store" /\ sgn'.outcome = "Done"
            /\ usersTable[sgn.email].exists) =>
          /\ usersTable'[sgn.email].hasEvents = usersTable[sgn.email].hasEvents
          /\ usersTable'[sgn.email].createdEvents =
                 usersTable[sgn.email].createdEvents
          /\ usersTable'[sgn.email].createdAt =
                 usersTable[sgn.email].createdAt]_vars

(***************************************************************************)
(* C23 (SpecCamera)                                                        *)
(***************************************************************************)
\* C23: when the dashboard is unmounted or the page is hidden while a
\* camera stream is active, the track of that stream is stopped
C23_CameraReleasedOnUnmount ==
    [][((Unmount \/ PageHidden) /\ stream # 0) =>
          stream \notin liveTracks']_vars

(***************************************************************************)
(* C24 (SpecCreate)                                                        *)
(***************************************************************************)
\* C24: a handleCreateEvent whose update of the user record has failed runs
\* no later step: it neither stores the event record nor reloads and
\* navigates
C24_FailedStepAbortsCreate ==
    \A o \in Orgs :
        cr[o].pc \in {"storeEvent", "reload"} => cr[o].userStored

(***************************************************************************)
(* C28, C29 (SpecCreate)                                                   *)
(***************************************************************************)
\* C28: an id that generateUniqueEventId returns before its tenth lookup is
\* one that a getEventById lookup of that call reported as not existing
C28_EarlyReturnWasReportedFree ==
    \A o \in Orgs :
        (cr[o].pc = "cover" /\ cr[o].attempts < maxAttempts)
            => cr[o].checkedFree

RECURSIVE DecimalValue(_)
\* the number a string of decimal digits writes
DecimalValue(id) ==
    IF id = <<>> THEN 0
    ELSE 10 * DecimalValue(SubSeq(id, 1, Len(id) - 1))
         + ((CHOOSE d \in 1..10 : DigitChar[d] = id[Len(id)]) - 1)

\* C29: the id generateUniqueEventId holds or has returned, on the path of a
\* free id, of a failed lookup and of ten collisions alike, is a string of
\* six decimal digits that writes a number in 100000..999999
C29_ReturnedIdIsSixDigits ==
    \A o \in Orgs :
        cr[o].pc \notin {"idle"} =>
            /\ Len(cr[o].eventId) = 6
            /\ \A k \in 1..6 : \E d \in 1..10 : DigitChar[d] = cr[o].eventId[k]
            /\ DecimalValue(cr[o].eventId) \in 100000..999999

C29_Witness ==
    \E o \in Orgs, p \in Orgs :
        /\ o # p
        /\ cr[o].pc = "cover" /\ cr[o].collided = 1 /\ cr[o].checkedFree
        /\ cr[p].pc = "cover" /\ ~cr[p].checkedFree
        /\ cr[p].attempts < maxAttempts

(***************************************************************************)
(* SpecValidate: the four handlers that validate their input; a run stays  *)
(* on one page: an organizer's dashboard, the attendee dashboard or the    *)
(* upload page                                                             *)
(***************************************************************************)
\* the selection of the run: one photo
OnePhoto == <<File(<<"a", ".", "j", "p", "g">>, Jpeg, MAX_FILE_SIZE)>>

\* the run is on the dashboard of the organizers, on the attendee dashboard
\* with or without a session and a selfie File, or on the upload page
InitValidate ==
    \/ /\ eventsTable = {LegacyOwn}
       /\ InitOrganizers
       /\ createsLeft = 1
       /\ deletesLeft = 0
       /\ DashboardIdle /\ UploadPageIdle /\ SelfieIdle
       /\ NavbarIdle /\ StatsIdle
    \/ /\ eventsTable = {EventRec(IdGenerated, "org@mail", "org@mail", 1)}
       /\ attendeeTable \in AttendeeTables
       /\ unsignedTable = EmptyTable
       /\ localStorage \in {Session(None, None), Session(UserU, None)}
       /\ eventDetails = NoEvent
       /\ selfieUrl \in {NoUrl, attendeeTable[DefaultId].selfieURL}
       /\ localStorage.userEmail = None => selfieUrl = NoUrl
       /\ attendedEvents = <<>>
       /\ matchingImages = <<>>
       /\ processingStatus = None
       /\ isUploading = FALSE
       /\ error = None
       /\ successMessage = None
       /\ showSignInModal = FALSE
       /\ statusTimer = 0
       /\ sub = SubIdle
       /\ url = UrlIdle
       /\ s3ImageCounts = {0, 1}
       /\ gateway = {Response(FALSE, <<>>), Response(TRUE, <<(<<85>>)>>)}
       /\ submitsLeft = MaxSubmits
       /\ urlLeft = 0
       /\ upl = UplIdle /\ selfiesLeft = 0
       /\ CameraClosed /\ camerasLeft = 0
       /\ selfieFile \in BOOLEAN
       /\ uac = UacIdle
       /\ comparesLeft = MaxCompares
       /\ OrganizersIdle /\ UploadPageIdle
       /\ NavbarIdle /\ StatsIdle
    \/ /\ eventsTable = {EventRec(IdGenerated, "org@mail", "org@mail", 1)}
       /\ InitUploadPage
       /\ changesLeft = 1
       /\ selectedEvent \in {<<>>, IdGenerated}
       /\ uploadsLeft = MaxUploads
       /\ DashboardIdle /\ OrganizersIdle /\ SelfieIdle
       /\ NavbarIdle /\ StatsIdle

NextValidate ==
    \/ NextCreate
    \/ \E code \in GateCodes : SubmitBlank(code)
    \/ \E code \in GateCodes : Submit(code)
    \/ SubmitLookupThrows
    \/ SubmitLookupMiss
    \/ SubmitNotFound
    \/ SubmitAuthRequired
    \/ SubmitFound
    \/ SubmitCached
    \/ StatusTimerFires
    \/ SubmitNoRecord
    \/ SubmitNoSelfie
    \/ SubmitSelfiePathUnknown
    \/ SubmitUseSelfie
    \/ NextCompare
    \/ NextCompareButton
    \/ handleImageChange(OnePhoto)
    \/ HandleUploadRejected
    \/ HandleUploadStarts
    \/ UploadToS3Returns(1)
    \/ UploadToS3Throws(1)

SpecValidate == InitValidate /\ [][NextValidate]_vars

(***************************************************************************)
(* C25 (SpecValidate)                                                      *)
(***************************************************************************)
\* the step of a handler that finds its input invalid
ValidationFails ==
    \/ \E o \in Orgs : CreateInvalid(o)
    \/ \E code \in Codes : SubmitBlank(code)
    \/ CompareRejected
    \/ HandleUploadRejected

\* no request is sent by the step: every handler waits for the replies it
\* waited for before (the handler of the step for none), no call is
\* recorded, and the bucket and the tables are as before
NoRequestIssued ==
    /\ \A o \in Orgs : cr'[o].pc = cr[o].pc
    /\ sub'.pc = sub.pc /\ sub'.calls \subseteq sub.calls
    /\ uac'.pc = uac.pc
    /\ hu'.pc = hu.pc /\ hu'.inflight = hu.inflight
    /\ UNCHANGED <<eventsTable, usersTable, attendeeTable, unsignedTable,
                   s3Objects, coverObjects, url, upl, sgn>>

\* the message of the step is on the page of the handler
MessageShown ==
    /\ (\E o \in Orgs : CreateInvalid(o)) =>
           \E o \in Orgs : /\ cr'[o].outcome = "Invalid"
                           /\ alertMessage'[o] # None
                           /\ isLoading'[o] = FALSE
    /\ (\E code \in Codes : SubmitBlank(code)) => error' = MsgEnterCode
    /\ CompareRejected => error' = MsgSelectSelfie /\ isUploading' = isUploading
    /\ HandleUploadRejected =>
           /\ uploadImageAlert' \in {<<MsgSelectImage, <<>>>>,
                                     <<MsgSelectEvent, <<>>>>}
           /\ uploadImageIsUploading' = FALSE

\* C25: a handleCreateEvent without name, date or cover, a
\* handleEventCodeSubmit with a blank code, a handleUploadAndCompare without
\* selfie or event and a handleUpload without images or selected event
\* return with a message and send no storage, database or comparison request
C25_ValidationBeforeRequests ==
    [][ValidationFails => (NoRequestIssued /\ MessageShown)]_vars

C25_Witness ==
    /\ sub.outcome = "Invalid"
    /\ uac.outcome = "Invalid"
    /\ error = MsgSelectSelfie
    /\ selfieFile = TRUE /\ eventDetails = NoEvent

(***************************************************************************)
(* SpecMatchFair: SpecMatch in which every request that was sent returns   *)
(* or fails and every timer fires                                          *)
(***************************************************************************)
\* the steps taken when a reply arrives or a timer fires
Replies ==
    \/ SubmitLookupThrows
    \/ SubmitLookupMiss
    \/ SubmitNotFound
    \/ SubmitAuthRequired
    \/ SubmitFound
    \/ SubmitCached
    \/ StatusTimerFires
    \/ SubmitNoRecord
    \/ SubmitNoSelfie
    \/ SubmitSelfiePathUnknown
    \/ SubmitUseSelfie
    \/ NextCompare

SpecMatchFair == SpecMatch /\ WF_vars(Replies)

(***************************************************************************)
(* C27 (SpecMatchFair)                                                     *)
(***************************************************************************)
\* handleEventCodeSubmit has returned
Terminal == sub.pc = "idle" /\ sub.outcome # None

\* what the invocation that returned has put on the page: matches with the
\* success message, or an error message
MatchesOrError ==
    \/ sub.outcome = "Done" /\ successMessage # None
    \/ sub.outcome \in {"Invalid", "NotFound", "AuthRequired", "Error"}
       /\ error # None

\* the event details with the selfie upload form, and neither matches nor
\* an error message
SelfieFormShown ==
    /\ sub.outcome = "AwaitSelfie"
    /\ eventDetails = sub.event /\ eventDetails # NoEvent
    /\ error = None /\ successMessage = None

C31_OrganizerRoleKept ==
    [][\A o \in Orgs :
          (usersTable[o].exists /\ usersTable[o].role = "organizer") =>
              (usersTable'[o].exists /\ usersTable'[o].role = "organizer")]_vars

(***************************************************************************)
(* C32 (SpecDash)                                                          *)
(***************************************************************************)
\* C32: a form submission starts its comparison run (the listing of the
\* event's images) only when no other lookup of the dashboard is under way
C32_OneWorkflowInFlight ==
    [][(sub.pc # "list" /\ sub'.pc = "list") => url.pc = "idle"]_vars

(***************************************************************************)
(* C33 (SpecBulk)                                                          *)
(***************************************************************************)
\* C33: while no handleUpload is running (isUploading is false) the upload
\* progress is null
C33_ProgressNullAfterUpload ==
    (hu.pc = "idle" /\ uploadImageIsUploading = FALSE)
        => uploadProgress = NoProgress

(***************************************************************************)
(* C34 (SpecDash)                                                          *)
(***************************************************************************)
\* C34: the displayed list of matched photos holds no image URL twice
C34_NoUrlShownTwice ==
    \A j, k \in 1..Len(matchingImages) :
        matchingImages[j] = matchingImages[k] => j = k

(***************************************************************************)
(* C35 (SpecMatch)                                                         *)
(***************************************************************************)
\* C35: once handleEventCodeSubmit has returned and no display timer of the
\* cached path is pending, processingStatus is null
C35_StatusClearedAtEnd ==
    (sub.pc = "idle" /\ sub.outcome # None /\ statusTimer = 0)
        => processingStatus = None

(***************************************************************************)
(* C36 (SpecCreate)                                                        *)
(***************************************************************************)
\* C36: when no handleCreateEvent of an organizer is running, every id of
\* the organizer's stored createdEvents is the id of a stored event
C36_CreatedEventsAreStoredEvents ==
    \A o \in Orgs :
        cr[o].pc = "idle" =>
            \A id \in Range(StoredCreatedEvents(usersTable, o)) :
                \E e \in eventsTable : e.id = id

(***************************************************************************)
(* C37 (SpecCamera)                                                        *)
(***************************************************************************)
\* C37: while the dashboard is mounted and the camera modal is closed, the
\* camera is not active and no camera track is live
C37_ClosedModalHasNoStream ==
    (mounted = TRUE /\ showCameraModal = FALSE)
        => (isCameraActive = FALSE /\ liveTracks = {})

(***************************************************************************)
(* SpecStats: the dashboard is opened by a visitor who is signed out or    *)
(* signed in, with or without a default selfie record and with up to two   *)
(* match records, and fetchUserData runs                                   *)
(***************************************************************************)
LaterMatch ==
    AttendeeRec(IdZeroLed, SelfieB,
                <<ImageUrl(ImageKey(IdZeroLed, 1, ExtOf(1)))>>)
StatsTables ==
    {[e \in AttendeeIds |->
         IF e = DefaultId THEN d
         ELSE IF e = IdGenerated THEN m
         ELSE IF e = IdZeroLed THEN l ELSE NoRecord] :
        d \in {NoRecord, AttendeeRec(DefaultId, SelfieA, <<>>)},
        m \in {NoRecord, EarlierMatch},
        l \in {NoRecord, LaterMatch}}

InitStats ==
    /\ eventsTable \in Directories
    /\ attendeeTable \in StatsTables
    /\ unsignedTable = EmptyTable
    /\ localStorage \in {Session(None, None), Session(None, "getPhotos"),
                         Session(UserU, None)}
    /\ eventDetails = NoEvent
    /\ selfieUrl = NoUrl
    /\ attendedEvents = <<>>
    /\ matchingImages = <<>>
    /\ processingStatus = None
    /\ isUploading = FALSE
    /\ error = None
    /\ successMessage = None
    /\ showSignInModal = FALSE
    /\ statusTimer = 0
    /\ sub = SubIdle /\ submitsLeft = 0
    /\ url = UrlIdle /\ urlLeft = 0
    /\ s3ImageCounts = {0}
    /\ gateway = {}
    /\ statistics = NoStatistics
    /\ loading = TRUE
    /\ fud = FudIdle
    /\ fetchesLeft = MaxFetches
    /\ OrganizersIdle /\ UploadPageIdle /\ SelfieIdle
    /\ NavbarIdle

SpecStats == InitStats /\ [][NextFetch]_vars

(***************************************************************************)
(* C38: the Events figure of the attendee dashboard                        *)
(***************************************************************************)
\* the records of the signed-in user that are match records of an event
UserEventRecords ==
    IF localStorage.userEmail = None THEN {}
    ELSE {r \in getAllAttendeeImagesByUser(RecordsOf(localStorage.userEmail)) :
             r.eventId # DefaultId}

\* C38: whenever the dashboard is shown (loading is over), the Events figure
\* equals the number of the user's match records whose event id is not the
\* reserved default id, and is not negative: for a signed-out visitor, for a
\* user without a default selfie record and for a user with one
C38_EventCountIsEventRecords ==
    (loading = FALSE /\ fud.pc = "idle") =>
        /\ EventsShown = Cardinality(UserEventRecords)
        /\ EventsShown >= 0

(***************************************************************************)
(* UploadImage.handleDownload and UploadImage.handleDownloadAll            *)
(***************************************************************************)
MsgDownloadedAll == "Successfully downloaded all images!"
MsgDownloadedSome ==
    "Downloaded images. Failed to download images. Please try again later."

\* the promise of handleDownload(url): rejected when the response is not
\* ok, is no image or the fetch throws (the catch alerts and throws again)
handleDownload(ok) == IF ok THEN "fulfilled" ELSE "rejected"

\* promise.catch(error => ({ error, url })): a rejection becomes the value
\* of a fulfilled promise
caught(promise) == "fulfilled"

\* Promise.allSettled(downloadPromises), failed being the indices of the
\* urls whose download fails
downloadResults(urls, failed) ==
    [k \in 1..Len(urls) |-> caught(handleDownload(k \notin failed))]

\* the alert after the results are counted: <<text, <<the counts in it>>>>
downloadReport(results) ==
    LET successCount ==
            Cardinality({k \in DOMAIN results : results[k] = "fulfilled"})
        failedUrls == {k \in DOMAIN results : results[k] # "fulfilled"}
    IN  IF failedUrls = {} THEN <<MsgDownloadedAll, <<successCount>>>>
        ELSE <<MsgDownloadedSome, <<successCount, Cardinality(failedUrls)>>>>

\* Download All is pressed (the button is shown after an upload of more
\* than one image); the alerts of the downloads that fail are followed by
\* the alert of the report
handleDownloadAll(failed) ==
    /\ uploadSuccess /\ Len(uploadedUrls) > 1
    /\ failed \subseteq 1..Len(uploadedUrls)
    /\ uploadImageAlert' = downloadReport(downloadResults(uploadedUrls, failed))
    /\ UNCHANGED <<nonHandleUploadVars, localStorage, s3Objects, hu,
                   uploadsLeft, uploadImageIsUploading, uploadSuccess,
                   uploadProgress, uploadedUrls, showQRModal>>

(***************************************************************************)
(* SpecDownloads: a batch is picked and uploaded, and the uploaded images  *)
(* are downloaded together, every download failing or not                 *)
(***************************************************************************)
NextDownloads ==
    \/ NextBulk
    \/ \E failed \in SUBSET (1..MaxSelect) : handleDownloadAll(failed)

SpecDownloads == InitBulk /\ [][NextDownloads]_vars

(***************************************************************************)
(* C39: the report of handleDownloadAll                                    *)
(***************************************************************************)
\* the number of failures an alert of handleDownloadAll reports
ReportedFailures(alert) ==
    IF alert[1] = MsgDownloadedSome THEN alert[2][2] ELSE 0

\* C39: whatever the downloads that fail, the report of handleDownloadAll
\* gives a failure count equal to the number of uploaded URLs whose download
\* failed, and says that all images were downloaded only when none failed
C39_ReportCountsFailedDownloads ==
    [][\A failed \in SUBSET (1..Len(uploadedUrls)) :
           handleDownloadAll(failed) =>
               /\ ReportedFailures(uploadImageAlert') = Cardinality(failed)
               /\ uploadImageAlert'[1] = MsgDownloadedAll => failed = {}]_vars

====
